---- MODULE Spec2Model ----
(***************************************************************************)
(* Model of the anonymization engine of data_anonymizer                    *)
(* (src/src/data_anonymizer/core/anonymizer.py): the column dispatcher     *)
(* DataAnonymizer.anonymize_dataframe, the loader/saver and the job        *)
(* run_anonymization_job, the aggregate analyzer k_anonymity_suppress, and *)
(* the value methods (hash_value, pseudonymize_value, generalize_numeric,   *)
(* generalize_date, anonymize_email, anonymize_phone, anonymize_ssn,        *)
(* differential_privacy_noise, perturb_value, substitute_value, mask_value) *)
(* called on engines of their own, anonymize_dataframe called several      *)
(* times on one shared engine, and the service built on them: the routes   *)
(* of api/routes/anonymizer.py with the file checks, the configuration     *)
(* check and the temp-file registry of core/security.py.                   *)
(*                                                                         *)
(* Strings are sequences of one-character strings.  A cell of a table is a *)
(* record [kind, num, txt, alg]:                                           *)
(*   kind = "int"    the Python int num                                    *)
(*   kind = "str"    the Python str txt                                    *)
(*   kind = "nan"    a missing cell (float NaN)                            *)
(*   kind = "float"  the Python float num / 4 (floats are kept in quarters) *)
(*   kind = "digest" the hex digest of algorithm alg over the string txt   *)
(* A digest is kept symbolic: two digests are equal exactly when algorithm *)
(* and hashed string are equal (the digest is treated as injective); its   *)
(* hex digits, where a method slices them, are given by hexdigest.          *)
(***************************************************************************)
EXTENDS Integers, Sequences, FiniteSets, TLC

\* ------------------------------------------------------------------ bounds
\* largest number of rows of a table of the job model
MaxRows == 2
\* largest number of columns one sheet's configuration names
MaxConfigured == 2
\* largest length of a column handed to k_anonymity_suppress on its own
MaxLen == 4
\* largest k handed to k_anonymity_suppress on its own
MaxK == 3

\* ------------------------------------------------------------------ cells
IntCell(n) == [kind |-> "int", num |-> n, txt |-> <<>>, alg |-> ""]
StrCell(s) == [kind |-> "str", num |-> 0, txt |-> s, alg |-> ""]
NaN == [kind |-> "nan", num |-> 0, txt |-> <<>>, alg |-> ""]
FloatCell(q) == [kind |-> "float", num |-> q, txt |-> <<>>, alg |-> ""]
DigestCell(a, s) == [kind |-> "digest", num |-> 0, txt |-> s, alg |-> a]

\* the salt of an engine constructed without one: salt or "default_salt"
DefaultSalt == <<"d","e","f","a","u","l","t","_","s","a","l","t">>

\* the sentinel written by k_anonymity_suppress
SUPPRESSED == StrCell(<<"[","S","U","P","P","R","E","S","S","E","D","]">>)

DigitChar(d) ==
  CASE d = 0 -> "0" [] d = 1 -> "1" [] d = 2 -> "2" [] d = 3 -> "3"
    [] d = 4 -> "4" [] d = 5 -> "5" [] d = 6 -> "6" [] d = 7 -> "7"
    [] d = 8 -> "8" [] d = 9 -> "9"

RECURSIVE NatToStr(_)
NatToStr(n) == IF n < 10 THEN <<DigitChar(n)>>
               ELSE NatToStr(n \div 10) \o <<DigitChar(n % 10)>>

\* str(int)
IntToStr(n) == IF n < 0 THEN <<"-">> \o NatToStr(0 - n) ELSE NatToStr(n)

\* str(float) of q / 4: "2.0", "-0.5", "9.75"
FloatToStr(q) ==
  LET a == IF q < 0 THEN 0 - q ELSE q
      frac == CASE a % 4 = 0 -> <<"0">>
                [] a % 4 = 1 -> <<"2", "5">>
                [] a % 4 = 2 -> <<"5">>
                [] a % 4 = 3 -> <<"7", "5">>
  IN (IF q < 0 THEN <<"-">> ELSE <<>>) \o NatToStr(a \div 4) \o <<".">> \o frac

\* str(value) / f"{value}" of a cell value
Str(v) ==
  CASE v.kind = "int" -> IntToStr(v.num)
    [] v.kind = "str" -> v.txt
    [] v.kind = "nan" -> <<"n","a","n">>
    [] v.kind = "float" -> FloatToStr(v.num)
    [] OTHER -> v.txt

\* isinstance(value, (int, float)): NaN is a float
IsNumber(v) == v.kind \in {"int", "nan", "float"}

\* variant: int() rounds down
ToInt_Floor(v) == IF v.kind = "float" THEN v.num \div 4 ELSE v.num

\* int(value) of a number that is not NaN: a float is truncated toward zero
ToInt(v) ==
  IF v.kind = "float"
  THEN IF v.num >= 0 THEN v.num \div 4 ELSE 0 - ((0 - v.num) \div 4)
  ELSE v.num

\* s[a:b] of Python, for 0 <= a <= b
Slice(s, a, b) ==
  SubSeq(s, a + 1, IF b < Len(s) THEN b ELSE Len(s))

\* the printable ASCII characters in code order, from the space (32) on
\* (the backslash and the backtick, which no input holds, are spelled out)
Printable ==
  <<" ", "!", "\"", "#", "$", "%", "&", "'", "(", ")", "*", "+", ",", "-", ".",
    "/", "0", "1", "2", "3", "4", "5", "6", "7", "8", "9", ":", ";", "<", "=",
    ">", "?", "@", "A", "B", "C", "D", "E", "F", "G", "H", "I", "J", "K", "L",
    "M", "N", "O", "P", "Q", "R", "S", "T", "U", "V", "W", "X", "Y", "Z", "[",
    "backslash", "]", "^", "_", "backtick", "a", "b", "c", "d", "e", "f", "g", "h", "i", "j",
    "k", "l", "m", "n", "o", "p", "q", "r", "s", "t", "u", "v", "w", "x", "y",
    "z", "{", "|", "}", "~">>

\* ord(c)
Ord(c) == 31 + (CHOOSE i \in DOMAIN Printable : Printable[i] = c)

\* str.isdigit() and the regex class \d, over ASCII
IsDigit(c) == c \in {"0", "1", "2", "3", "4", "5", "6", "7", "8", "9"}

\* int(c) of a digit character
DigitVal(c) == Ord(c) - 48

\* dict.get(key, default)
Get(options, key, default) ==
  IF key \in DOMAIN options THEN options[key] ELSE default

\* ------------------------------------------------------- method library
HashAlgorithms == {"sha256", "sha512", "md5"}

\* variant: no algorithm name is rejected
HashRaises_Never(algorithm) == FALSE

\* _generate_secure_hash raises ValueError for any other algorithm
HashRaises(algorithm) == algorithm \notin HashAlgorithms

\* _generate_secure_hash: digest of f"{value}{salt}"
GenerateSecureHash(v, algorithm, salt) == DigestCell(algorithm, Str(v) \o salt)

hash_value(v, algorithm, salt) == GenerateSecureHash(v, algorithm, salt)

\* the number of hex digits hexdigest() returns
HexLen(algorithm) ==
  CASE algorithm = "sha256" -> 64
    [] algorithm = "sha512" -> 128
    [] algorithm = "md5" -> 32

HexChar(n) ==
  <<"0", "1", "2", "3", "4", "5", "6", "7", "8", "9", "a", "b", "c", "d", "e",
    "f">>[n + 1]

\* int(c, 16) of a hex digit
HexVal(c) == IF IsDigit(c) THEN DigitVal(c) ELSE Ord(c) - 87

RECURSIVE Checksum(_)
Checksum(text) ==
  IF text = <<>> THEN 0
  ELSE (Checksum(SubSeq(text, 1, Len(text) - 1))
          + Len(text) * Ord(text[Len(text)])) % 1009

\* The hex digits of a digest.  hashlib is library code: digit i of the
\* digest is given by a fixed function of the algorithm and the hashed text
\* that takes all sixteen values; nothing but its being a function of the two
\* and its length is relied on.
hexdigest(d) ==
  LET c == Checksum(d.txt) + HexLen(d.alg)
  IN [i \in 1..HexLen(d.alg) |-> HexChar((c * i + (i * i) \div 3 + c \div 7) % 16)]

\* pseudonymize_value (lines 120-125): f"{prefix}_{hash_val[:8]}"
pseudonymize_value(v, prefix, salt) ==
  StrCell(prefix \o <<"_">>
            \o Slice(hexdigest(GenerateSecureHash(v, "sha256", salt)), 0, 8))

\* mask_char * n
Repeat(c, n) == [i \in 1..n |-> c]

\* variant: the first and the last character are shown from two characters on
mask_value_ShowShort(v, mask_char, preserve_length) ==
  LET s == Str(v) IN
  IF preserve_length THEN StrCell(Repeat(mask_char, Len(s)))
  ELSE IF Len(s) < 2 THEN StrCell(Repeat(mask_char, Len(s)))
  ELSE StrCell(<<s[1]>> \o Repeat(mask_char, Len(s) - 2) \o <<s[Len(s)]>>)

mask_value(v, mask_char, preserve_length) ==
  LET s == Str(v) IN
  IF preserve_length THEN StrCell(Repeat(mask_char, Len(s)))
  ELSE IF Len(s) <= 2 THEN StrCell(Repeat(mask_char, Len(s)))
  ELSE StrCell(<<s[1]>> \o Repeat(mask_char, Len(s) - 2) \o <<s[Len(s)]>>)

\* generalize_numeric raises for NaN (int(nan)) and for bin_size 0 (// 0)
GenNumRaises(v, bin_size) ==
  IsNumber(v) /\ (v.kind = "nan" \/ bin_size = 0)

\* Python floor division a // b for b # 0
FloorDiv(a, b) == IF b > 0 THEN a \div b ELSE (0 - a) \div (0 - b)

generalize_numeric(v, bin_size) ==
  IF ~IsNumber(v) THEN StrCell(Str(v))
  ELSE LET num_value == ToInt(v)
           bin_start == FloorDiv(num_value, bin_size) * bin_size
           bin_end == bin_start + bin_size - 1
       IN StrCell(IntToStr(bin_start) \o <<"-">> \o IntToStr(bin_end))

\* ---- generalize_date
\* the formats generalize_date tries, in order (line 143); a directive is
\* spelled by its letter, any other element is a literal character
DateFormats ==
  << <<"Y", "-", "m", "-", "d">>,
     <<"m", "/", "d", "/", "Y">>,
     <<"d", "/", "m", "/", "Y">>,
     <<"Y", "-", "m", "-", "d", " ", "H", ":", "M", ":", "S">> >>

Directives == {"Y", "m", "d", "H", "M", "S"}

\* the number of characters directive dir takes of s from position p on, 0
\* when it does not match there: the alternatives of the regular expression
\* strptime compiles for it, in their order; a space of the format stands
\* for a run of spaces, any other character for itself
FieldLen(dir, s, p) ==
  LET D(k) == k <= Len(s) /\ IsDigit(s[k])
      In(k, cs) == k <= Len(s) /\ s[k] \in cs
  IN CASE dir = "Y" -> IF D(p) /\ D(p + 1) /\ D(p + 2) /\ D(p + 3) THEN 4 ELSE 0
       [] dir = "m" -> IF In(p, {"1"}) /\ In(p + 1, {"0", "1", "2"}) THEN 2
                       ELSE IF In(p, {"0"}) /\ D(p + 1) /\ s[p + 1] # "0" THEN 2
                       ELSE IF D(p) /\ s[p] # "0" THEN 1
                       ELSE 0
       [] dir = "d" -> IF In(p, {"3"}) /\ In(p + 1, {"0", "1"}) THEN 2
                       ELSE IF In(p, {"1", "2"}) /\ D(p + 1) THEN 2
                       ELSE IF In(p, {"0"}) /\ D(p + 1) /\ s[p + 1] # "0" THEN 2
                       ELSE IF D(p) /\ s[p] # "0" THEN 1
                       ELSE IF In(p, {" "}) /\ D(p + 1) /\ s[p + 1] # "0" THEN 2
                       ELSE 0
       [] dir = "H" -> IF In(p, {"2"}) /\ In(p + 1, {"0", "1", "2", "3"}) THEN 2
                       ELSE IF In(p, {"0", "1"}) /\ D(p + 1) THEN 2
                       ELSE IF D(p) THEN 1
                       ELSE 0
       [] dir = "M" -> IF In(p, {"0", "1", "2", "3", "4", "5"}) /\ D(p + 1) THEN 2
                       ELSE IF D(p) THEN 1
                       ELSE 0
       [] dir = "S" -> IF In(p, {"6"}) /\ In(p + 1, {"0", "1"}) THEN 2
                       ELSE IF In(p, {"0", "1", "2", "3", "4", "5"}) /\ D(p + 1) THEN 2
                       ELSE IF D(p) THEN 1
                       ELSE 0
       [] dir = " " -> Cardinality({n \in 1..(Len(s) + 1 - p) :
                                      \A j \in p..(p + n - 1) : s[j] = " "})
       [] OTHER -> IF In(p, {dir}) THEN 1 ELSE 0

\* int() of the digits of a field (a day may come with a leading space)
RECURSIVE FieldVal(_)
FieldVal(t) ==
  IF t = <<>> THEN 0
  ELSE IF ~IsDigit(t[Len(t)]) THEN FieldVal(SubSeq(t, 1, Len(t) - 1))
  ELSE 10 * FieldVal(SubSeq(t, 1, Len(t) - 1)) + DigitVal(t[Len(t)])

NoFields == [x \in {} |-> 0]

\* the regular expression of fmt matched against s from position p on, the
\* directives from the k-th on: whether it matched, where it ended and the
\* number each directive read
RECURSIVE Scan(_, _, _, _, _)
Scan(fmt, k, s, p, fields) ==
  IF k > Len(fmt) THEN [ok |-> TRUE, end |-> p, fields |-> fields]
  ELSE LET n == FieldLen(fmt[k], s, p) IN
       IF n = 0 THEN [ok |-> FALSE, end |-> p, fields |-> fields]
       ELSE Scan(fmt, k + 1, s, p + n,
                 IF fmt[k] \in Directives
                 THEN [d \in DOMAIN fields \cup {fmt[k]} |->
                         IF d = fmt[k] THEN FieldVal(SubSeq(s, p, p + n - 1))
                         ELSE fields[d]]
                 ELSE fields)

IsLeap(y) == (y % 4 = 0 /\ y % 100 # 0) \/ y % 400 = 0

DaysIn(y, m) ==
  IF m = 2 THEN (IF IsLeap(y) THEN 29 ELSE 28)
  ELSE IF m \in {4, 6, 9, 11} THEN 30 ELSE 31

\* datetime.strptime(s, fmt): ValueError (ok FALSE) when the expression does
\* not match, when text remains after it, or when the numbers are no date
strptime(s, fmt) ==
  LET m == Scan(fmt, 1, s, 1, NoFields)
      f == m.fields
  IN [ok |-> /\ m.ok
             /\ m.end = Len(s) + 1
             /\ f["Y"] >= 1
             /\ f["d"] <= DaysIn(f["Y"], f["m"])
             /\ ("S" \in DOMAIN f => f["S"] <= 59),
      year |-> IF m.ok THEN f["Y"] ELSE 0,
      month |-> IF m.ok THEN f["m"] ELSE 0]

\* the formats of DateFormats under which s parses, in order
ParsingFormats(s) ==
  SelectSeq([i \in DOMAIN DateFormats |-> i],
            LAMBDA i : strptime(s, DateFormats[i]).ok)

\* f"{n:02d}"
Pad2(n) == IF n < 10 THEN <<"0">> \o NatToStr(n) ELSE NatToStr(n)

\* variant: the quarter is the month divided by three, rounded down, plus one
QuarterOf_Floor(month) == month \div 3 + 1

\* line 164
QuarterOf(month) == (month - 1) \div 3 + 1

\* variant: the quarter's label leaves the year out
QuarterLabel_NoYear(year, month) == <<"Q">> \o NatToStr(QuarterOf(month))

\* line 165: f"{date_obj.year}-Q{quarter}"
QuarterLabel(year, month) ==
  IntToStr(year) \o <<"-", "Q">> \o NatToStr(QuarterOf(month))

\* generalize_date (lines 138-167) of a cell that is a str or no date at all
generalize_date(v, granularity) ==
  IF v.kind # "str" THEN StrCell(Str(v))
  ELSE LET fmts == ParsingFormats(v.txt) IN
       IF fmts = <<>> THEN StrCell(Str(v))
       ELSE LET date_obj == strptime(v.txt, DateFormats[fmts[1]])
                year == IntToStr(date_obj.year)
            IN CASE granularity = "year" -> StrCell(year)
                 [] granularity = "month" ->
                      StrCell(year \o <<"-">> \o Pad2(date_obj.month))
                 [] granularity = "quarter" ->
                      StrCell(QuarterLabel(date_obj.year, date_obj.month))
                 [] OTHER -> StrCell(Str(v))

\* ---- anonymize_email
\* the position of the first (last) c in s, 0 when s has none
Find(s, c) ==
  IF \E i \in DOMAIN s : s[i] = c
  THEN CHOOSE i \in DOMAIN s : s[i] = c /\ \A j \in 1..(i - 1) : s[j] # c
  ELSE 0
RFind(s, c) ==
  IF \E i \in DOMAIN s : s[i] = c
  THEN CHOOSE i \in DOMAIN s : s[i] = c /\ \A j \in (i + 1)..Len(s) : s[j] # c
  ELSE 0

\* the domains line 181 keeps
CommonDomains ==
  { <<"g", "m", "a", "i", "l", ".", "c", "o", "m">>,
    <<"y", "a", "h", "o", "o", ".", "c", "o", "m">>,
    <<"o", "u", "t", "l", "o", "o", "k", ".", "c", "o", "m">> }

\* variant: every domain off the list is replaced
KeepsDomain_ListOnly(domain) == domain \in CommonDomains

\* lines 181-187: the domain is on the list, or split(".") gives one part
KeepsDomain(domain) == domain \in CommonDomains \/ Find(domain, ".") = 0

\* anonymize_email (lines 169-198)
anonymize_email(v, salt) ==
  IF v.kind # "str" \/ Find(v.txt, "@") = 0 THEN StrCell(Str(v))
  ELSE LET at == Find(v.txt, "@")
           local == SubSeq(v.txt, 1, at - 1)
           domain == SubSeq(v.txt, at + 1, Len(v.txt))
           hash_local == hexdigest(GenerateSecureHash(StrCell(local), "sha256", salt))
           anon_local == <<"u", "s", "e", "r">> \o Slice(hash_local, 0, 8)
           tld == SubSeq(domain, RFind(domain, ".") + 1, Len(domain))
           hash_domain == hexdigest(GenerateSecureHash(StrCell(domain), "sha256", salt))
           anon_domain == <<"c", "o", "m", "p", "a", "n", "y">>
                            \o Slice(hash_domain, 0, 6) \o <<".">> \o tld
       IN StrCell(anon_local \o <<"@">>
                    \o (IF KeepsDomain(domain) THEN domain ELSE anon_domain))

\* ---- anonymize_phone
\* int(t, 16) of a string of hex digits that is not empty
RECURSIVE HexToInt(_)
HexToInt(t) ==
  IF Len(t) = 1 THEN HexVal(t[1])
  ELSE 16 * HexToInt(SubSeq(t, 1, Len(t) - 1)) + HexVal(t[Len(t)])

\* re.sub(r"\D", "", phone)
DigitsOf(phone) == SelectSeq(phone, IsDigit)

\* lines 211-216: int("", 16) raises ValueError once the slice hash_val[i:i+2]
\* lies past the end of the digest
PhoneRaises(v, salt) ==
  /\ v.kind = "str"
  /\ Len(DigitsOf(v.txt)) >= 7
  /\ LET hash_val == hexdigest(GenerateSecureHash(v, "sha256", salt))
     IN \E k \in 0..(Len(DigitsOf(v.txt)) - 1) :
          Slice(hash_val, 2 * k, 2 * k + 2) = <<>>

\* anonymize_phone (lines 200-228) when it returns
anonymize_phone(v, salt) ==
  IF v.kind # "str" THEN StrCell(Str(v))
  ELSE LET phone == v.txt
           digits == DigitsOf(phone)
           hash_val == hexdigest(GenerateSecureHash(v, "sha256", salt))
           fake_digits ==
             [k \in 1..Len(digits) |->
                DigitChar(HexToInt(Slice(hash_val, 2 * (k - 1), 2 * (k - 1) + 2)) % 10)]
           digit_index(i) == Len(DigitsOf(SubSeq(phone, 1, i)))
       IN IF Len(digits) >= 7
          THEN StrCell([i \in DOMAIN phone |->
                          IF IsDigit(phone[i]) THEN fake_digits[digit_index(i)]
                          ELSE phone[i]])
          ELSE v

\* ---- anonymize_ssn
\* variant: the pattern has to match the whole string
MatchesPrefix_Full(s, pattern) ==
  /\ Len(s) = Len(pattern)
  /\ \A i \in DOMAIN pattern :
       IF pattern[i] = "d" THEN IsDigit(s[i]) ELSE s[i] = pattern[i]

\* re.match of a pattern of \d and literal characters: a match at the start
MatchesPrefix(s, pattern) ==
  /\ Len(s) >= Len(pattern)
  /\ \A i \in DOMAIN pattern :
       IF pattern[i] = "d" THEN IsDigit(s[i]) ELSE s[i] = pattern[i]

DashedPattern == <<"d", "d", "d", "-", "d", "d", "-", "d", "d", "d", "d">>
NinePattern == <<"d", "d", "d", "d", "d", "d", "d", "d", "d">>

\* anonymize_ssn (lines 230-247)
anonymize_ssn(v, salt) ==
  IF v.kind # "str" THEN StrCell(Str(v))
  ELSE LET hash_val == hexdigest(GenerateSecureHash(v, "sha256", salt))
           numeric_hash == [i \in DOMAIN hash_val |-> DigitChar(Ord(hash_val[i]) % 10)]
           fake_ssn == Slice(numeric_hash, 0, 3) \o <<"-">>
                         \o Slice(numeric_hash, 3, 5) \o <<"-">>
                         \o Slice(numeric_hash, 5, 9)
       IN IF MatchesPrefix(v.txt, DashedPattern) THEN StrCell(fake_ssn)
          ELSE IF MatchesPrefix(v.txt, NinePattern)
          THEN StrCell(SelectSeq(fake_ssn, LAMBDA c : c # "-"))
          ELSE StrCell(fake_ssn)

\* ---- differential_privacy_noise
\* scale = sensitivity / epsilon raises ZeroDivisionError
NoiseRaises(v, epsilon) == IsNumber(v) /\ epsilon = 0

\* variant: an int's noisy value is rounded to the nearest integer
differential_privacy_noise_Round(v, noise) ==
  IF ~IsNumber(v) THEN v
  ELSE IF v.kind = "int" THEN IntCell((4 * v.num + noise + 2) \div 4)
  ELSE IF v.kind = "float" THEN FloatCell(v.num + noise)
  ELSE NaN

\* differential_privacy_noise (lines 260-277) when it returns; noise is what
\* secure_random.gauss drew, in quarters
differential_privacy_noise(v, noise) ==
  IF ~IsNumber(v) THEN v
  ELSE IF v.kind = "int" THEN IntCell(ToInt(FloatCell(4 * v.num + noise)))
  ELSE IF v.kind = "float" THEN FloatCell(v.num + noise)
  ELSE NaN

\* ---- perturb_value
\* the noise, in quarters, the random source can draw for perturb_value
\* (lines 303-320): uniform(-range, range), gauss(0, range), or
\* uniform(-percentage / 100, percentage / 100) * value; range defaults to
\* abs(value) * 0.1 and percentage to 10; an unknown type is uniform
PerturbNoise(v, logic_details, noise) ==
  LET q == IF v.kind = "int" THEN 4 * v.num ELSE v.num
      absq == IF q < 0 THEN 0 - q ELSE q
      absn == IF noise < 0 THEN 0 - noise ELSE noise
      type == Get(logic_details, "type", "uniform")
      ranged == "range" \in DOMAIN logic_details
      range == Get(logic_details, "range", 0)
      absr == IF range < 0 THEN 0 - range ELSE range
      percentage == Get(logic_details, "percentage", 10)
      absp == IF percentage < 0 THEN 0 - percentage ELSE percentage
  IN IF type = "gaussian"
     THEN (IF ranged THEN range # 0 ELSE absq # 0) \/ noise = 0
     ELSE IF type = "percentage" THEN 100 * absn <= absp * absq
     ELSE IF ranged THEN absn <= absr
     ELSE 10 * absn <= absq

\* variant: an int's perturbed value is rounded to the nearest integer
perturb_value_Round(v, logic_details, noise) ==
  IF ~IsNumber(v) THEN v
  ELSE IF v.kind = "nan" THEN NaN
  ELSE LET x == (IF v.kind = "int" THEN 4 * v.num ELSE v.num) + noise
           result == IF Get(logic_details, "non_negative", FALSE) /\ x < 0
                     THEN 0 - x ELSE x
       IN IF v.kind = "int" THEN IntCell((result + 2) \div 4)
          ELSE FloatCell(result)

\* perturb_value (lines 299-332); noise is what the random source drew, in
\* quarters
perturb_value(v, logic_details, noise) ==
  IF ~IsNumber(v) THEN v
  ELSE IF v.kind = "nan" THEN NaN
  ELSE LET x == (IF v.kind = "int" THEN 4 * v.num ELSE v.num) + noise
           result == IF Get(logic_details, "non_negative", FALSE) /\ x < 0
                     THEN 0 - x ELSE x
       IN IF v.kind = "int" THEN IntCell(ToInt(FloatCell(result)))
          ELSE FloatCell(result)

\* ---- substitute_value
\* self.substitution_lists (lines 31-85)
substitution_lists ==
  [names |->
     <<<<"J", "o", "h", "n", " ", "D", "o", "e">>,
       <<"J", "a", "n", "e", " ", "S", "m", "i", "t", "h">>,
       <<"R", "o", "b", "e", "r", "t", " ", "J", "o", "h", "n", "s", "o", "n">>,
       <<"E", "m", "i", "l", "y", " ", "D", "a", "v", "i", "s">>,
       <<"M", "i", "c", "h", "a", "e", "l", " ", "B", "r", "o", "w", "n">>,
       <<"S", "a", "r", "a", "h", " ", "W", "i", "l", "s", "o", "n">>,
       <<"D", "a", "v", "i", "d", " ", "M", "i", "l", "l", "e", "r">>,
       <<"L", "i", "s", "a", " ", "G", "a", "r", "c", "i", "a">>,
       <<"C", "h", "r", "i", "s", " ", "M", "a", "r", "t", "i", "n", "e", "z">>,
       <<"A", "n", "n", "a", " ", "T", "a", "y", "l", "o", "r">>>>,
   companies |->
     <<<<"A", "c", "m", "e", " ", "C", "o", "r", "p">>,
       <<"B", "e", "t", "a", " ", "I", "n", "c">>,
       <<"G", "a", "m", "m", "a", " ", "L", "L", "C">>,
       <<"D", "e", "l", "t", "a", " ", "L", "t", "d">>,
       <<"A", "l", "p", "h", "a", " ", "S", "y", "s", "t", "e", "m", "s">>,
       <<"O", "m", "e", "g", "a", " ", "S", "o", "l", "u", "t", "i", "o", "n", "s">>,
       <<"P", "h", "o", "e", "n", "i", "x", " ", "G", "r", "o", "u", "p">>,
       <<"T", "i", "t", "a", "n", " ", "I", "n", "d", "u", "s", "t", "r", "i", "e", "s">>,
       <<"N", "o", "v", "a", " ", "C", "o", "r", "p">>,
       <<"P", "r", "i", "m", "e", " ", "T", "e", "c", "h">>>>,
   cities |->
     <<<<"S", "p", "r", "i", "n", "g", "f", "i", "e", "l", "d">>,
       <<"F", "r", "a", "n", "k", "l", "i", "n">>,
       <<"G", "e", "o", "r", "g", "e", "t", "o", "w", "n">>,
       <<"M", "a", "d", "i", "s", "o", "n">>,
       <<"R", "i", "v", "e", "r", "s", "i", "d", "e">>,
       <<"A", "r", "l", "i", "n", "g", "t", "o", "n">>,
       <<"F", "a", "i", "r", "v", "i", "e", "w">>,
       <<"G", "r", "e", "e", "n", "v", "i", "l", "l", "e">>,
       <<"O", "a", "k", "l", "a", "n", "d">>,
       <<"C", "l", "a", "y", "t", "o", "n">>>>,
   domains |->
     <<<<"e", "x", "a", "m", "p", "l", "e", ".", "c", "o", "m">>,
       <<"t", "e", "s", "t", "d", "o", "m", "a", "i", "n", ".", "o", "r", "g">>,
       <<"s", "a", "m", "p", "l", "e", ".", "n", "e", "t">>,
       <<"p", "l", "a", "c", "e", "h", "o", "l", "d", "e", "r", ".", "c", "o">>,
       <<"a", "n", "o", "n", "y", "m", "o", "u", "s", ".", "i", "n", "f", "o">>,
       <<"g", "e", "n", "e", "r", "i", "c", ".", "c", "o", "m">>,
       <<"s", "t", "a", "n", "d", "a", "r", "d", ".", "o", "r", "g">>,
       <<"d", "e", "f", "a", "u", "l", "t", ".", "n", "e", "t">>>>,
   countries |->
     <<<<"C", "o", "u", "n", "t", "r", "y", " ", "A">>,
       <<"C", "o", "u", "n", "t", "r", "y", " ", "B">>,
       <<"C", "o", "u", "n", "t", "r", "y", " ", "C">>,
       <<"C", "o", "u", "n", "t", "r", "y", " ", "D">>,
       <<"C", "o", "u", "n", "t", "r", "y", " ", "E">>>>]

REDACTED == <<"[", "R", "E", "D", "A", "C", "T", "E", "D", "]">>

\* the list secure_random.choice draws from (lines 283-287), <<>> when the
\* sentinel is returned; a list that is None or empty is falsy
SubstituteFrom(logic_details) ==
  LET replacement_list == Get(logic_details, "list", <<>>)
      data_type == Get(logic_details, "type", "generic")
  IN IF replacement_list # <<>> THEN replacement_list
     ELSE IF data_type \in DOMAIN substitution_lists
          THEN [i \in DOMAIN substitution_lists[data_type] |->
                  StrCell(substitution_lists[data_type][i])]
     ELSE <<>>

\* variant: the type is looked up before the list
substitute_value_TypeFirst(v, logic_details, pick) ==
  LET replacement_list == Get(logic_details, "list", <<>>)
      data_type == Get(logic_details, "type", "generic")
  IN IF data_type \in DOMAIN substitution_lists
     THEN StrCell(substitution_lists[data_type][pick])
     ELSE IF replacement_list # <<>> THEN replacement_list[pick]
     ELSE StrCell(REDACTED)

\* substitute_value (lines 279-289); pick is the position
\* secure_random.choice drew
substitute_value(v, logic_details, pick) ==
  IF SubstituteFrom(logic_details) # <<>>
  THEN SubstituteFrom(logic_details)[pick]
  ELSE StrCell(REDACTED)

\* ---------------------------- file names (core/security.py, SecurityManager)
\* the characters sanitize_filename replaces: [<>:"/\|?*]
Forbidden == {"<", ">", ":", "\"", "/", "backslash", "|", "?", "*"}

\* the longest name sanitize_filename leaves alone
MaxFilenameLength == 100

\* re.sub(r"\.\.+", ".", s): of every run of dots the first is kept
CollapseDots(s) ==
  LET marked == [i \in DOMAIN s |->
                   [c |-> s[i],
                    first |-> ~(s[i] = "." /\ i > 1 /\ s[i - 1] = ".")]]
      kept == SelectSeq(marked, LAMBDA m : m.first)
  IN [i \in DOMAIN kept |-> kept[i].c]

\* s.strip(". ")
Strip(s) ==
  LET inner == {i \in DOMAIN s : s[i] \notin {".", " "}}
  IN IF inner = {} THEN <<>>
     ELSE SubSeq(s, CHOOSE i \in inner : \A j \in inner : i <= j,
                    CHOOSE i \in inner : \A j \in inner : j <= i)

\* os.path.splitext of a name without separators: the extension starts at
\* the last dot, unless only dots come before it
splitext(s) ==
  LET d == RFind(s, ".")
  IN IF d > 0 /\ \E j \in 1..(d - 1) : s[j] # "."
     THEN [name |-> SubSeq(s, 1, d - 1), ext |-> SubSeq(s, d, Len(s))]
     ELSE [name |-> s, ext |-> <<>>]

\* s[:k] of Python: a negative k counts from the end
Prefix(s, k) ==
  IF k >= 0 THEN SubSeq(s, 1, IF k < Len(s) THEN k ELSE Len(s))
  ELSE SubSeq(s, 1, IF Len(s) + k > 0 THEN Len(s) + k ELSE 0)

\* sanitize_filename (lines 70-82)
sanitize_filename(filename) ==
  LET replaced == [i \in DOMAIN filename |->
                     IF filename[i] \in Forbidden THEN "_" ELSE filename[i]]
      sanitized == Strip(CollapseDots(replaced))
      parts == splitext(sanitized)
  IN IF Len(sanitized) > MaxFilenameLength
     THEN Prefix(parts.name, MaxFilenameLength - Len(parts.ext)) \o parts.ext
     ELSE sanitized

\* ------------------------------------------------- aggregate analyzers
\* number of positions of series holding value v
Count(series, v) == Cardinality({i \in DOMAIN series : series[i] = v})

\* Series.value_counts(): <<value, count>> for every distinct value that is
\* not missing (dropna defaults to True), most frequent first
value_counts(series) ==
  LET IsFirst(i) == /\ series[i].kind # "nan"
                    /\ \A j \in 1..(i - 1) : series[j] # series[i]
      first == SelectSeq([i \in DOMAIN series |-> i], IsFirst)
      ord == SortSeq(first, LAMBDA x, y :
                              Count(series, series[x]) > Count(series, series[y]))
  IN [n \in DOMAIN ord |-> <<series[ord[n]], Count(series, series[ord[n]])>>]

\* Series.replace(value, new)
Replace(series, value, new) ==
  [i \in DOMAIN series |-> IF series[i] = value THEN new ELSE series[i]]

\* variant: values that appear exactly k times are suppressed too
SuppressLoop_AtMost(suppressed, items, k) ==
  [i \in DOMAIN suppressed |->
     IF \E n \in DOMAIN items : items[n][1] = suppressed[i] /\ items[n][2] <= k
     THEN SUPPRESSED ELSE suppressed[i]]

\* the loop of k_anonymity_suppress over value_counts.items()
RECURSIVE SuppressLoop(_, _, _)
SuppressLoop(suppressed, items, k) ==
  IF items = <<>> THEN suppressed
  ELSE LET value == Head(items)[1]
           count == Head(items)[2]
       IN SuppressLoop(IF count < k THEN Replace(suppressed, value, SUPPRESSED)
                       ELSE suppressed,
                       Tail(items), k)

k_anonymity_suppress(series, k) == SuppressLoop(series, value_counts(series), k)

\* variant: every position draws a value of the column anew (sampling with
\* replacement), here the value perm sends the first position to
shuffle_column_Sample(series, perm) ==
  [i \in DOMAIN series |-> series[perm[1]]]

\* shuffle_column (lines 291-297): the values of series, as a list, in the
\* order perm leaves them, under the index of series
shuffle_column(series, perm) == [i \in DOMAIN series |-> series[perm[i]]]

\* ------------------------------------------------------ tables and heap
\* A table (DataFrame) is [rows, cols, data]: the length of its index, the
\* column names in order and, for each of them, the column's cells.  Frames
\* live on a heap (a sequence of tables); a reference to a frame is its
\* index, so that two names bound to one frame see each other's assignments.

HasColumn(t, col) == \E i \in DOMAIN t.cols : t.cols[i] = col

\* variant: the caller's frame itself, not a copy
df_copy_Alias(heap, ref) == [heap |-> heap, ref |-> ref]

\* df.copy(): a new frame with the same contents
df_copy(heap, ref) == [heap |-> Append(heap, heap[ref]), ref |-> Len(heap) + 1]

\* df[col] = series, in place
SetColumn(heap, ref, col, series) ==
  [heap EXCEPT ![ref] = [rows |-> heap[ref].rows,
                         cols |-> heap[ref].cols,
                         data |-> [heap[ref].data EXCEPT ![col] = series]]]

\* variant: the frame drop returns is thrown away
DropColumn_Noop(t, col) == t

\* df.drop(columns=[col]): a new frame without the column
DropColumn(t, col) ==
  LET keep == SelectSeq(t.cols, LAMBDA c : c # col)
  IN [rows |-> t.rows,
      cols |-> keep,
      data |-> [c \in {keep[i] : i \in DOMAIN keep} |-> t.data[c]]]

\* ------------------------------------------------------ configuration
\* A column's configuration entry [col, form, method, optsOk, options]:
\*   form "str"  a bare method string
\*   form "obj"  an object; method is Absent when it has no "method" key,
\*               options are its "options" ({} when absent), optsOk is
\*               FALSE when the "options" value is not a mapping
\*   form "bad"  neither (a number, a list, null)
Absent == "<absent>"
NoOptions == [x \in {} |-> ""]

Bare(col, m) ==
  [col |-> col, form |-> "str", method |-> m, optsOk |-> TRUE, options |-> NoOptions]
Obj(col, m, opts) ==
  [col |-> col, form |-> "obj", method |-> m, optsOk |-> TRUE, options |-> opts]
ObjBadOptions(col, m) ==
  [col |-> col, form |-> "obj", method |-> m, optsOk |-> FALSE, options |-> NoOptions]
BadEntry(col) ==
  [col |-> col, form |-> "bad", method |-> Absent, optsOk |-> TRUE, options |-> NoOptions]

\* variant: a bare string is not read as a method name, the default method
\* is used
ResolveMethod_BareDefault(entry) ==
  IF entry.form = "str" THEN "hash"
  ELSE IF entry.method = Absent THEN "hash" ELSE entry.method

\* lines 345-350: method and options of an entry that is a str or a dict
ResolveMethod(entry) ==
  IF entry.form = "str" THEN entry.method
  ELSE IF entry.method = Absent THEN "hash" ELSE entry.method

\* the methods whose branch of the dispatcher reads options (options.get)
ReadsOptions ==
  {"hash", "mask", "pseudonymize", "generalize_numeric", "generalize_date",
   "k_anonymity"}

DefaultAlgorithm == "sha256"
DefaultMaskChar == "*"
DefaultBinSize == 10
DefaultK == 5
DefaultPrefix == <<"I", "D">>
DefaultGranularity == "month"

\* the body of the try block raises (lines 352-426)
MethodRaises(method, entry, series) ==
  LET options == entry.options IN
  CASE method = "hash" ->
         \/ ~entry.optsOk
         \/ /\ series # <<>>
            /\ HashRaises(Get(options, "algorithm", DefaultAlgorithm))
    [] method = "generalize_numeric" ->
         \/ ~entry.optsOk
         \/ \E i \in DOMAIN series :
              GenNumRaises(series[i], Get(options, "bin_size", DefaultBinSize))
    [] method = "anonymize_phone" ->
         \* whether a cell raises depends on the number of its digits alone
         \E i \in DOMAIN series : PhoneRaises(series[i], DefaultSalt)
    [] method \in ReadsOptions -> ~entry.optsOk
    [] OTHER -> FALSE

\* variant: a dispatcher with a pass-through branch for the method none
UnknownMethodResult_PassNone(entry, series, salt) ==
  IF ResolveMethod(entry) = "none" THEN series
  ELSE [i \in DOMAIN series |->
          hash_value(StrCell(Str(series[i])), DefaultAlgorithm, salt)]

\* variant: the fallback branch honours options.algorithm
UnknownMethodResult_Options(entry, series, salt) ==
  [i \in DOMAIN series |->
     hash_value(StrCell(Str(series[i])),
                Get(entry.options, "algorithm", DefaultAlgorithm), salt)]

\* lines 422-426: the branch of a method the dispatcher does not know
UnknownMethodResult(entry, series, salt) ==
  [i \in DOMAIN series |->
     hash_value(StrCell(Str(series[i])), DefaultAlgorithm, salt)]

\* variant: the except clause falls back to hashing the column
ExceptColumn_Fallback(series, salt) ==
  [i \in DOMAIN series |-> hash_value(StrCell(Str(series[i])), DefaultAlgorithm, salt)]

\* lines 428-431: the column after the except clause (nothing was assigned)
ExceptColumn(series, salt) == series

\* the column the try block assigns when it does not raise; perm is the
\* permutation the secure random source draws for shuffle
MethodResult(method, entry, series, salt, perm) ==
  LET options == entry.options IN
  CASE method = "hash" ->
         [i \in DOMAIN series |->
            hash_value(StrCell(Str(series[i])),
                       Get(options, "algorithm", DefaultAlgorithm), salt)]
    [] method = "mask" ->
         [i \in DOMAIN series |->
            mask_value(series[i], Get(options, "mask_char", DefaultMaskChar),
                       Get(options, "preserve_length", TRUE))]
    [] method = "generalize_numeric" ->
         [i \in DOMAIN series |->
            generalize_numeric(series[i], Get(options, "bin_size", DefaultBinSize))]
    [] method = "pseudonymize" ->
         [i \in DOMAIN series |->
            pseudonymize_value(series[i], Get(options, "prefix", DefaultPrefix), salt)]
    [] method = "generalize_date" ->
         [i \in DOMAIN series |->
            generalize_date(series[i], Get(options, "granularity", DefaultGranularity))]
    [] method = "anonymize_email" ->
         [i \in DOMAIN series |-> anonymize_email(series[i], salt)]
    [] method = "anonymize_phone" ->
         [i \in DOMAIN series |-> anonymize_phone(series[i], salt)]
    [] method = "anonymize_ssn" ->
         [i \in DOMAIN series |-> anonymize_ssn(series[i], salt)]
    [] method = "k_anonymity" ->
         k_anonymity_suppress(series, Get(options, "k", DefaultK))
    [] method = "shuffle" -> shuffle_column(series, perm)
    [] OTHER -> UnknownMethodResult(entry, series, salt)

\* ------------------------------------------------------------ job inputs
JobValues == {IntCell(25), StrCell(<<"2", "5">>), NaN}

ColumnsUpTo(n) == UNION {[1..m -> JobValues] : m \in 0..n}

\* the tables of the first sheet: column "a" ranges over every column of
\* at most MaxRows cells, column "b" holds 10, 20, ...
Tables ==
  {[rows |-> Len(colA),
    cols |-> <<"a", "b">>,
    data |-> [c \in {"a", "b"} |->
                IF c = "a" THEN colA
                ELSE [i \in DOMAIN colA |-> IntCell(10 * i)]]] :
     colA \in ColumnsUpTo(MaxRows)}

SecondTable ==
  [rows |-> 1,
   cols |-> <<"a", "b">>,
   data |-> [c \in {"a", "b"} |->
               IF c = "a" THEN <<StrCell(<<"2", "5">>)>> ELSE <<IntCell(10)>>]]

\* an input path: whether the file exists, its suffix, its sheets
CsvFile(t) == [exists |-> TRUE, suffix |-> ".csv", names |-> <<"Sheet1">>,
               tables |-> <<t>>]
XlsxFile(t) == [exists |-> TRUE, suffix |-> ".xlsx", names |-> <<"Sheet1", "S2">>,
                tables |-> <<t, SecondTable>>]
NoFile(sfx) == [exists |-> FALSE, suffix |-> sfx, names |-> <<>>, tables |-> <<>>]
OtherFile == [exists |-> TRUE, suffix |-> ".txt", names |-> <<>>, tables |-> <<>>]

\* configuration entries of the columns "a" and "b" of the tables and of a
\* column "z" no table has
EntriesA ==
  { Bare("a", "hash"),
    Obj("a", "hash", [algorithm |-> "md5"]),
    Obj("a", "hash", [algorithm |-> "rot13"]),
    Bare("a", "none"),
    Obj("a", "frobnicate", [algorithm |-> "md5"]),
    ObjBadOptions("a", "frobnicate"),
    Bare("a", "remove"),
    Obj("a", "k_anonymity", [k |-> 2]),
    Bare("a", "shuffle"),
    Obj("a", "generalize_numeric", [bin_size |-> 0]),
    BadEntry("a") }
EntriesB ==
  { Bare("b", "hash"),
    Obj("b", Absent, [algorithm |-> "rot13"]),
    Obj("b", "remove", NoOptions),
    Obj("b", "mask", [preserve_length |-> FALSE]),
    Bare("b", "pseudonymize") }
EntriesZ == { Bare("z", "hash"), BadEntry("z") }

\* a sheet's entry: a mapping of columns (its entries in order), or not one
ColumnConfig(entries) == [form |-> "map", cols |-> entries]
BadSheetEntry == [form |-> "bad", cols |-> <<>>]

Singles == {<<e>> : e \in EntriesA \cup EntriesB \cup EntriesZ}
Pairs == {<<e, f>> : e \in EntriesA, f \in EntriesB}
         \cup {<<e, f>> : e \in EntriesA, f \in EntriesZ}
         \cup {<<e, f>> : e \in EntriesB, f \in EntriesZ}
Triples == {<<e, f, g>> : e \in EntriesA, f \in EntriesB, g \in EntriesZ}

\* every ordering of a list of entries
Orderings(l) ==
  {[i \in DOMAIN l |-> l[p[i]]] : p \in Permutations(DOMAIN l)}

\* column configurations with at most one entry per column and at most n
\* entries, in any order
ColumnConfigsUpTo(n) ==
  {ColumnConfig(o) :
     o \in UNION {Orderings(l) :
                    l \in {x \in {<<>>} \cup Singles \cup Pairs \cup Triples :
                             Len(x) <= n}}}
ColumnConfigs == ColumnConfigsUpTo(MaxConfigured)

\* the column configurations tried on the first sheet of a workbook
WorkbookColumnConfigs ==
  {ColumnConfig(l) : l \in {<<>>, <<Bare("a", "hash")>>, <<Bare("a", "remove")>>,
                            <<Obj("a", "hash", [algorithm |-> "rot13"])>>,
                            <<BadEntry("a")>>,
                            <<BadEntry("z"), Bare("a", "hash")>>}}

\* the masking_config argument: a JSON text (isStr) or a Python object;
\* form "invalid" is a text that is not JSON, "notmap" a value that is not a
\* mapping, "map" a mapping from sheet names to sheet entries
Config(isStr, form, sheetCfg) == [isStr |-> isStr, form |-> form, sheets |-> sheetCfg]
NoSheets == [x \in {} |-> BadSheetEntry]

BrokenConfigs ==
  { Config(TRUE, "invalid", NoSheets), Config(TRUE, "notmap", NoSheets),
    Config(FALSE, "notmap", NoSheets) }

\* Sheet1 configured, not configured, or malformed; likewise S2
SheetMaps(first, second) ==
  {[n \in {"Sheet1"} |-> e] : e \in first}
  \cup {[n \in {"Sheet1", "S2"} |-> IF n = "Sheet1" THEN e ELSE f] :
          e \in first, f \in second}
  \cup {[n \in {"S2"} |-> f] : f \in second}
  \cup {NoSheets}

SecondEntries == {BadSheetEntry, ColumnConfig(<<Bare("b", "hash")>>)}

OutputSuffixes == {".csv", ".xlsx", ".txt"}

Job(f, c, sel, o) == [file |-> f, config |-> c, selected |-> sel, out |-> o]

\* the arguments of run_anonymization_job and the input file they name:
\* a flat file under any column configuration
FlatJobs ==
  {Job(CsvFile(t), Config(FALSE, "map", [n \in {"Sheet1"} |-> cc]), "", ".csv") :
     t \in Tables, cc \in ColumnConfigs}
\* a workbook of two sheets, any sheet selector, any sheet structure
WorkbookJobs ==
  {Job(XlsxFile(t), Config(TRUE, "map", m), sel, o) :
     t \in Tables,
     m \in SheetMaps(WorkbookColumnConfigs \cup {BadSheetEntry}, SecondEntries),
     sel \in {"", "S2", "Nope"}, o \in OutputSuffixes}
\* a flat file whose configuration names other sheets too or only
OtherSheetJobs ==
  {Job(CsvFile(t), Config(FALSE, "map", m), "", ".csv") :
     t \in Tables,
     m \in SheetMaps({ColumnConfig(<<Bare("a", "hash")>>)}, SecondEntries)}
\* a configuration that is not a mapping
BrokenJobs ==
  {Job(f, c, "", ".csv") :
     f \in {CsvFile(t) : t \in Tables} \cup {XlsxFile(t) : t \in Tables},
     c \in BrokenConfigs}
\* no input file, or one of an unsupported type
NoFileJobs ==
  {Job(f, Config(FALSE, "map", NoSheets), sel, ".csv") :
     f \in {NoFile(".csv"), NoFile(".xlsx"), NoFile(".txt"), OtherFile},
     sel \in {"", "S2"}}

\* ------------------------------------------------------------- the state
VARIABLES
  pc,                \* position of run_anonymization_job
  input,             \* the file input_path names
  masking_config,    \* the masking_config argument, rebound once parsed
  selected_sheet,    \* the selected_sheet argument ("" is None)
  output_path,       \* the suffix of output_path
  salt,              \* the engine's salt (<<>> before construction)
  frames,            \* the heap of DataFrames
  sheets,            \* load_data's result: sheet names and frame references
  sheetIdx,          \* position of the loop over sheets.items()
  df_anon,           \* anonymize_dataframe's local frame reference
  colIdx,            \* position of the loop over masking_config.items()
  anonymized_sheets, \* the job's result dict: names and frame references
  outFile,           \* the file written at output_path, <<>> while none is
  error,             \* the exception that ended the job and the line that
                     \* raised it, <<>> while none has
  log,               \* the lines the dispatcher printed: <<sheet, col, method>>
  written,           \* the <<sheet, col>> the dispatcher has assigned or dropped
  kSeries, kK, kOut, kPc, \* a call of k_anonymity_suppress on its own
  calls,             \* calls of value methods, each on an engine of its own
  outs,              \* what the calls made so far returned or raised
  plan,              \* the calls anonymize_dataframe(df, config) made on one
                     \* shared engine
  runs,              \* where each of them stands: its df_anon, its position
                     \* in the loop, what it printed
  engine,            \* the shared engine's salt
  disk,              \* the files of the service's directories
  temp_files,        \* security_manager.temp_files, in insertion order: the
                     \* name in uploads and the hour of registration
  tasks,             \* the background tasks the service has scheduled
  responses,         \* the responses the service has given
  now                \* the service's clock, in hours

jobVars == <<pc, input, masking_config, selected_sheet, output_path, salt, frames,
             sheets, sheetIdx, df_anon, colIdx, anonymized_sheets, outFile,
             error, log, written>>
kVars == <<kSeries, kK, kOut, kPc>>
callVars == <<calls, outs>>
sharedVars == <<plan, runs, engine>>
apiVars == <<disk, temp_files, tasks, responses, now>>
vars == <<jobVars, kVars, callVars, sharedVars, apiVars>>

\* no frame is handed to a shared engine; the service has not started
SharedIdle == plan = <<>> /\ runs = <<>> /\ engine = <<>>
ApiIdle ==
  disk = {} /\ temp_files = <<>> /\ tasks = <<>> /\ responses = <<>> /\ now = 0

\* the salt argument of DataAnonymizer(): None, or a str
NoSalt == [none |-> TRUE, str |-> <<>>]
SaltArg(text) == [none |-> FALSE, str |-> text]

\* variant: only a missing salt is replaced by the default
EngineSalt_Keep(arg) == IF arg.none THEN DefaultSalt ELSE arg.str

\* DataAnonymizer.__init__: salt or "default_salt"
EngineSalt(arg) == IF arg.none \/ arg.str = <<>> THEN DefaultSalt ELSE arg.str

Init ==
  /\ \E j \in FlatJobs \cup WorkbookJobs \cup OtherSheetJobs
              \cup BrokenJobs \cup NoFileJobs :
       /\ input = j.file
       /\ masking_config = j.config
       /\ selected_sheet = j.selected
       /\ output_path = j.out
  /\ pc = "start"
  /\ salt = <<>>
  /\ frames = <<>>
  /\ sheets = <<>>
  /\ sheetIdx = 0
  /\ df_anon = 0
  /\ colIdx = 0
  /\ anonymized_sheets = <<>>
  /\ outFile = <<>>
  /\ error = <<>>
  /\ log = <<>>
  /\ written = {}
  /\ kSeries = <<>> /\ kK = 0 /\ kOut = <<>> /\ kPc = "idle"
  /\ calls = <<>> /\ outs = <<>>
  /\ SharedIdle
  /\ ApiIdle

\* the job ends with exception e raised at a line of anonymizer.py
Fail(e, line) == pc' = "failed" /\ error' = <<e, line>>

\* lines 477-482: json.loads of a str config, then DataAnonymizer()
ParseConfig ==
  /\ pc = "start"
  /\ IF masking_config.isStr /\ masking_config.form = "invalid"
     THEN /\ Fail("JSONDecodeError", 479)
          /\ UNCHANGED <<masking_config, salt>>
     ELSE /\ masking_config' = [masking_config EXCEPT !.isStr = FALSE]
          /\ salt' = EngineSalt(NoSalt)
          /\ pc' = "load"
          /\ UNCHANGED error
  /\ UNCHANGED <<input, selected_sheet, output_path, frames, sheets, sheetIdx,
                 df_anon, colIdx, anonymized_sheets, outFile, log, written, kVars,
                 callVars, sharedVars, apiVars>>

\* variant: a selector that names no sheet selects the first sheet
SelectedNames_First(names, selected) ==
  IF selected = "" THEN names
  ELSE IF \E i \in DOMAIN names : names[i] = selected THEN <<selected>>
  ELSE <<names[1]>>

\* the sheets load_data returns for an existing Excel file (lines 445-449)
SelectedNames(names, selected) ==
  IF selected # "" /\ \E i \in DOMAIN names : names[i] = selected
  THEN <<selected>>
  ELSE names

SheetTable(file, name) ==
  file.tables[CHOOSE i \in DOMAIN file.names : file.names[i] = name]

\* load_data (lines 435-451), then the job's loop is entered
LoadData ==
  /\ pc = "load"
  /\ IF input.suffix \notin {".csv", ".xlsx", ".xls"}
     THEN /\ Fail("ValueError", 451)
          /\ UNCHANGED <<frames, sheets, sheetIdx>>
     ELSE IF ~input.exists
     THEN /\ Fail("FileNotFoundError", IF input.suffix = ".csv" THEN 442 ELSE 445)
          /\ UNCHANGED <<frames, sheets, sheetIdx>>
     ELSE LET names == IF input.suffix = ".csv" THEN <<"Sheet1">>
                       ELSE SelectedNames(input.names, selected_sheet)
          IN /\ frames' = [i \in DOMAIN names |->
                             IF input.suffix = ".csv" THEN input.tables[1]
                             ELSE SheetTable(input, names[i])]
             /\ sheets' = [i \in DOMAIN names |-> [name |-> names[i], ref |-> i]]
             /\ sheetIdx' = 1
             /\ pc' = "sheet"
             /\ UNCHANGED error
  /\ UNCHANGED <<input, masking_config, selected_sheet, output_path, salt, df_anon,
                 colIdx, anonymized_sheets, outFile, log, written, kVars, callVars, sharedVars, apiVars>>

\* variant: a sheet without an entry gets the entry of another sheet
SheetConfig_Any(config, name) ==
  IF name \in DOMAIN config.sheets THEN config.sheets[name]
  ELSE IF DOMAIN config.sheets # {}
  THEN config.sheets[CHOOSE n \in DOMAIN config.sheets : TRUE]
  ELSE ColumnConfig(<<>>)

\* variant: any value is taken for a mapping
IsMapping_Lax(value) == TRUE

\* the value has the dict methods get and items
IsMapping(value) == value.form = "map"

\* masking_config.get(sheet_name, {}) of a mapping
SheetConfig(config, name) ==
  IF name \in DOMAIN config.sheets THEN config.sheets[name] ELSE ColumnConfig(<<>>)

CurSheet == sheets[sheetIdx]
CurConfig == SheetConfig(masking_config, CurSheet.name)

\* lines 489-490 and 338-340: the sheet's configuration is looked up, the
\* frame copied and the loop over the configuration's items entered
BeginSheet ==
  /\ pc = "sheet"
  /\ sheetIdx <= Len(sheets)
  /\ IF ~IsMapping(masking_config)
     THEN /\ Fail("AttributeError", 490)
          /\ UNCHANGED <<frames, df_anon, colIdx>>
     ELSE LET c == df_copy(frames, CurSheet.ref)
          IN /\ frames' = c.heap
             /\ df_anon' = c.ref
             /\ IF ~IsMapping(CurConfig)
                THEN Fail("AttributeError", 340) /\ UNCHANGED colIdx
                ELSE pc' = "cols" /\ colIdx' = 1 /\ UNCHANGED error
  /\ UNCHANGED <<input, masking_config, selected_sheet, output_path, salt, sheets,
                 sheetIdx, anonymized_sheets, outFile, log, written, kVars, callVars, sharedVars, apiVars>>

\* the permutations the secure random source can leave a column of n cells in
ShufflePerms(method, n) ==
  IF method = "shuffle" THEN Permutations(1..n) ELSE {[i \in 1..n |-> i]}

\* lines 340-431: one iteration of the loop over masking_config.items()
DispatchColumn ==
  /\ pc = "cols"
  /\ colIdx <= Len(CurConfig.cols)
  /\ LET entry == CurConfig.cols[colIdx]
         col == entry.col
         df == frames[df_anon]
     IN IF ~HasColumn(df, col)
        THEN \* continue
             /\ colIdx' = colIdx + 1
             /\ UNCHANGED <<pc, error, frames, df_anon, log, written>>
        ELSE IF entry.form = "bad"
        THEN \* config.get on a value that is no dict
             /\ Fail("AttributeError", 349)
             /\ UNCHANGED <<colIdx, frames, df_anon, log, written>>
        ELSE LET method == ResolveMethod(entry)
                 series == df.data[col]
             IN IF MethodRaises(method, entry, series)
                THEN \* except Exception: print and continue
                     /\ log' = Append(log, <<CurSheet.name, col, method>>)
                     /\ frames' = SetColumn(frames, df_anon, col,
                                            ExceptColumn(series, salt))
                     /\ colIdx' = colIdx + 1
                     /\ UNCHANGED <<pc, error, df_anon, written>>
                ELSE IF method = "remove"
                THEN /\ frames' = Append(frames, DropColumn(df, col))
                     /\ df_anon' = Len(frames) + 1
                     /\ written' = written \cup {<<CurSheet.name, col>>}
                     /\ colIdx' = colIdx + 1
                     /\ UNCHANGED <<pc, error, log>>
                ELSE \E perm \in ShufflePerms(method, Len(series)) :
                     /\ frames' = SetColumn(frames, df_anon, col,
                                            MethodResult(method, entry, series, salt, perm))
                     /\ written' = written \cup {<<CurSheet.name, col>>}
                     /\ colIdx' = colIdx + 1
                     /\ UNCHANGED <<pc, error, df_anon, log>>
  /\ UNCHANGED <<input, masking_config, selected_sheet, output_path, salt, sheets,
                 sheetIdx, anonymized_sheets, outFile, kVars, callVars, sharedVars, apiVars>>

\* lines 433 and 491-493: the frame is returned and stored under its sheet
ReturnFrame ==
  /\ pc = "cols"
  /\ colIdx > Len(CurConfig.cols)
  /\ anonymized_sheets' = Append(anonymized_sheets,
                                 [name |-> CurSheet.name, ref |-> df_anon])
  /\ sheetIdx' = sheetIdx + 1
  /\ pc' = "sheet"
  /\ UNCHANGED <<input, masking_config, selected_sheet, output_path, salt, frames,
                 sheets, df_anon, colIdx, outFile, error, log, written, kVars, callVars, sharedVars, apiVars>>

\* save_data (lines 453-466): a CSV keeps the first sheet only
SaveData ==
  /\ pc = "sheet"
  /\ sheetIdx > Len(sheets)
  /\ IF output_path = ".csv"
     THEN /\ outFile' = <<[name |-> "", table |-> frames[anonymized_sheets[1].ref]]>>
          /\ pc' = "done"
          /\ UNCHANGED error
     ELSE IF output_path \in {".xlsx", ".xls"}
     THEN /\ outFile' = [i \in DOMAIN anonymized_sheets |->
                           [name |-> anonymized_sheets[i].name,
                            table |-> frames[anonymized_sheets[i].ref]]]
          /\ pc' = "done"
          /\ UNCHANGED error
     ELSE /\ Fail("ValueError", 466)
          /\ UNCHANGED outFile
  /\ UNCHANGED <<input, masking_config, selected_sheet, output_path, salt, frames,
                 sheets, sheetIdx, df_anon, colIdx, anonymized_sheets, log, written,
                 kVars, callVars, sharedVars, apiVars>>

Next ==
  \/ ParseConfig
  \/ LoadData
  \/ BeginSheet
  \/ DispatchColumn
  \/ ReturnFrame
  \/ SaveData

Spec == Init /\ [][Next]_vars

\* ------------------------------------ k_anonymity_suppress on its own
KValues == {StrCell(<<"A">>), StrCell(<<"B">>), NaN, SUPPRESSED}

KSeries == UNION {[1..n -> KValues] : n \in 0..MaxLen}

\* the job at rest
JobIdle ==
  /\ pc = "idle"
  /\ input = NoFile(".csv")
  /\ masking_config = Config(FALSE, "map", NoSheets)
  /\ selected_sheet = ""
  /\ output_path = ".csv"
  /\ salt = DefaultSalt
  /\ frames = <<>>
  /\ sheets = <<>>
  /\ sheetIdx = 0
  /\ df_anon = 0
  /\ colIdx = 0
  /\ anonymized_sheets = <<>>
  /\ outFile = <<>>
  /\ error = <<>>
  /\ log = <<>>
  /\ written = {}

InitK ==
  /\ JobIdle
  /\ calls = <<>> /\ outs = <<>>
  /\ SharedIdle
  /\ ApiIdle
  /\ kSeries \in KSeries
  /\ kK \in (0 - 1)..MaxK
  /\ kOut = <<>>
  /\ kPc = "call"

\* a call k_anonymity_suppress(series, k) (lines 249-258)
Suppress ==
  /\ kPc = "call"
  /\ kOut' = k_anonymity_suppress(kSeries, kK)
  /\ kPc' = "done"
  /\ UNCHANGED <<kSeries, kK, jobVars, callVars, sharedVars, apiVars>>

NextK == Suppress

SpecK == InitK /\ [][NextK]_vars

\* ----------------------------------------- value methods on their own
\* largest number of digits of a phone number handed to anonymize_phone
MaxDigits == 33
\* largest magnitude of a number handed to generalize_numeric
MaxNum == 11
\* largest bin size handed to generalize_numeric
MaxBin == 4
\* largest magnitude, in quarters, of the noise the random source draws
MaxNoise == 7

\* k_anonymity_suppress at rest
KIdle == kSeries = <<>> /\ kK = 0 /\ kOut = <<>> /\ kPc = "idle"

\* a call: the method, the salt the engine was built with, the value and
\* the method's further argument
Call(fn, saltArg, value, arg) ==
  [fn |-> fn, saltArg |-> saltArg, value |-> value, arg |-> arg]

\* what a call gave: the exception it raised ("" when it returned), the
\* value it returned and the noise the random source drew for it
Returned(v) == [raised |-> "", value |-> v, drawn |-> 0]
Raised(e) == [raised |-> e, value |-> NaN, drawn |-> 0]

\* ---- inputs of anonymize_phone
PhoneTexts ==
  {h \o Repeat(d, n) \o t :
     h \in {<<>>, <<"(">>, <<"+", "1", " ">>},
     d \in {"5", "9"},
     n \in 0..MaxDigits,
     t \in {<<>>, <<"-", "4">>, <<"x">>, <<")", " ", "1", "2">>}}
  \cup { <<"(", "5", "5", "5", ")", " ", "1", "2", "3", "-", "4", "5", "6", "7">>,
         <<"5", "5", "5", ".", "1", "2", "3", ".", "4", "5", "6", "7">> }

PhoneCalls ==
  {<<Call("anonymize_phone", NoSalt, StrCell(t), NoOptions)>> : t \in PhoneTexts}
  \cup {<<Call("anonymize_phone", NoSalt, v, NoOptions)>> :
          v \in {IntCell(5551234), NaN}}

\* ---- inputs of anonymize_ssn
\* the shapes of the texts: d stands for a digit
SsnShapes ==
  { DashedPattern, NinePattern,
    NinePattern \o <<"d">>,
    DashedPattern \o <<"d">>,
    DashedPattern \o <<" ", "x">>,
    <<"d", "d", "d", " ", "d", "d", " ", "d", "d", "d", "d">>,
    <<"d", "d", "d", "-", "d", "d", "-", "d", "d", "d">>,
    <<"d", "d", "d", "d", "d", "d", "d", "d">>,
    <<"x", "d", "d", "d", "-", "d", "d", "-", "d", "d", "d", "d">>,
    <<"d", "d", "d", ".", "d", "d", ".", "d", "d", "d", "d">>,
    <<"d", "d">>, <<"n", "/", "a">>, <<>> }

\* a shape with digit a at the odd and digit b at the even positions
Fill(shape, a, b) ==
  [i \in DOMAIN shape |->
     IF shape[i] = "d" THEN (IF i % 2 = 1 THEN a ELSE b) ELSE shape[i]]

SsnTexts == {Fill(sh, a, b) : sh \in SsnShapes, a \in {"1", "7"}, b \in {"2", "0"}}

SsnCalls ==
  {<<Call("anonymize_ssn", sa, StrCell(t), NoOptions)>> :
     t \in SsnTexts, sa \in {NoSalt, SaltArg(<<"s">>)}}
  \cup {<<Call("anonymize_ssn", NoSalt, IntCell(123456789), NoOptions)>>}

\* ---- inputs of generalize_numeric
NumericValues ==
  {IntCell(n) : n \in (0 - MaxNum)..MaxNum}
  \cup {FloatCell(q) : q \in (0 - 4 * MaxNum)..(4 * MaxNum)}
  \cup {NaN, StrCell(<<"9", ".", "5">>)}

NumericCalls ==
  {<<Call("generalize_numeric", NoSalt, v, [bin_size |-> b])>> :
     v \in NumericValues, b \in 0..MaxBin}

\* ---- inputs of differential_privacy_noise
NoiseValues ==
  {IntCell(n) : n \in (0 - 2)..2}
  \cup {FloatCell(q) : q \in {0 - 6, 0 - 1, 0, 2, 5}}
  \cup {NaN, StrCell(<<"1", "0">>), StrCell(<<>>)}

NoiseCalls ==
  {<<Call("differential_privacy", NoSalt, v, [epsilon |-> e])>> :
     v \in NoiseValues, e \in {0, 1, 2}}

\* ---- inputs of perturb_value
PerturbValues ==
  {IntCell(n) : n \in {0 - 5, 0 - 1, 0, 1, 5}}
  \cup {FloatCell(q) : q \in {0 - 20, 0 - 3, 0, 3, 20}}
  \cup {NaN, StrCell(<<"1", "0">>)}

\* range is in quarters
PerturbOptions ==
  {[type |-> t, range |-> r] :
     t \in {"uniform", "gaussian", "laplace"}, r \in {0, 2, 4}}
  \cup {[type |-> "uniform", range |-> r, non_negative |-> TRUE] : r \in {2, 4}}
  \cup {[type |-> "percentage", percentage |-> p] : p \in {0, 10, 25}}
  \cup {[type |-> "percentage"], [range |-> 4], NoOptions}

PerturbCalls ==
  {<<Call("perturb", NoSalt, v, o)>> : v \in PerturbValues, o \in PerturbOptions}

\* ---- inputs of substitute_value
SubstituteLists ==
  {<<>>, <<StrCell(<<"X">>)>>, <<StrCell(<<"X">>), IntCell(0)>>}

SubstituteOptions ==
  {[type |-> t] :
     t \in {"names", "companies", "cities", "domains", "countries",
            "generic", "colors"}}
  \cup {[list |-> l] : l \in SubstituteLists}
  \cup {[list |-> l, type |-> t] :
          l \in SubstituteLists, t \in {"names", "colors"}}
  \cup {NoOptions}

SubstituteCalls ==
  {<<Call("substitute", NoSalt, v, o)>> :
     v \in {StrCell(<<"a">>), IntCell(7), NaN}, o \in SubstituteOptions}

\* ---- inputs of mask_value
MaskValues ==
  {StrCell(t) : t \in UNION {[1..n -> {"a", "*"}] : n \in 0..MaxLen}}
  \cup {StrCell(<<"s", "e", "n", "s", "i", "t", "i", "v", "e">>)}
  \cup {IntCell(n) : n \in {0 - 12, 0, 7, 345}}
  \cup {FloatCell(q) : q \in {0 - 2, 10}}
  \cup {NaN}

MaskCalls ==
  {<<Call("mask", NoSalt, v, [mask_char |-> c, preserve_length |-> p])>> :
     v \in MaskValues, c \in {"*", "#"}, p \in BOOLEAN}

\* ---- inputs of sanitize_filename
CsvExt == <<".", "c", "s", "v">>

FileNames ==
  {t : t \in UNION {[1..n -> {"a", ".", "/", " ", "<"}] : n \in 0..MaxLen}}
  \cup {Repeat("a", n) \o <<".">> \o Repeat("b", m) \o e :
          n \in {1, 95, 96}, m \in {1, 10, 150}, e \in {<<>>, CsvExt}}
  \cup {Repeat("a", 101), Repeat("a", 120) \o CsvExt}

SanitizeCalls ==
  {<<Call("sanitize_filename", NoSalt, StrCell(t), NoOptions)>> : t \in FileNames}

\* ---- inputs of generalize_date
\* f"{y:04d}"
Pad4(y) ==
  (IF y < 1000 THEN <<"0">> ELSE <<>>) \o (IF y < 100 THEN <<"0">> ELSE <<>>)
    \o (IF y < 10 THEN <<"0">> ELSE <<>>) \o NatToStr(y)

\* the text of year y, month m and day d in a style: the four accepted
\* formats, or year/month/day, which is none of them
DateText(y, m, d, style, padded) ==
  LET N(n) == IF padded THEN Pad2(n) ELSE NatToStr(n) IN
  CASE style = "iso" -> Pad4(y) \o <<"-">> \o N(m) \o <<"-">> \o N(d)
    [] style = "us" -> N(m) \o <<"/">> \o N(d) \o <<"/">> \o Pad4(y)
    [] style = "eu" -> N(d) \o <<"/">> \o N(m) \o <<"/">> \o Pad4(y)
    [] style = "isodt" -> Pad4(y) \o <<"-">> \o N(m) \o <<"-">> \o N(d)
                            \o <<" ", "2", "3", ":", "5", ":", "5", "9">>
    [] style = "ymd" -> Pad4(y) \o <<"/">> \o N(m) \o <<"/">> \o N(d)

DateStyles == {"iso", "us", "eu", "isodt", "ymd"}
Granularities == {"year", "month", "quarter", "day"}

\* the argument of a date call: the granularity and, for the properties,
\* what the text was written from
DateArg(g, y, m, d, style) ==
  [granularity |-> g, y |-> y, m |-> m, d |-> d, style |-> style]

DateCall(g, y, m, d, style, padded) ==
  Call("generalize_date", NoSalt, StrCell(DateText(y, m, d, style, padded)),
       DateArg(g, y, m, d, style))

DateCalls ==
  {<<DateCall(g, y, m, d, style, padded)>> :
     g \in Granularities, y \in {2023, 2024, 987}, m \in 0..13,
     d \in {0, 1, 13, 29, 30, 31}, style \in DateStyles, padded \in BOOLEAN}
  \cup {<<Call("generalize_date", NoSalt, v, DateArg(g, 0, 0, 0, "none"))>> :
          g \in Granularities,
          v \in {IntCell(2023), NaN, StrCell(<<>>),
                 StrCell(<<"2", "0", "2", "3">>),
                 StrCell(<<"2", "0", "2", "3", "-", "0", "1", "-", "1", "5", " ">>)}}

\* two dates, and a third, each generalized at the three granularities
Months == {DateArg("month", y, m, 15, "iso") : y \in {2023, 2024}, m \in 1..12}

ThreeWays(a) ==
  << DateCall("year", a.y, a.m, a.d, a.style, TRUE),
     DateCall("quarter", a.y, a.m, a.d, a.style, TRUE),
     DateCall("month", a.y, a.m, a.d, a.style, TRUE) >>

DateTriples ==
  {ThreeWays(a) \o ThreeWays(b) \o ThreeWays(c) :
     a \in Months, b \in Months, c \in {DateArg("month", 2023, 6, 15, "iso")}}

\* ---- inputs of anonymize_email
EmailLocals == {<<"a">>, <<"b", "o", "b">>, <<>>}
EmailDomains ==
  CommonDomains
  \cup { <<"G", "m", "a", "i", "l", ".", "c", "o", "m">>,
         <<"x", ".", "o", "r", "g">>,
         <<"m", ".", "x", ".", "o", "r", "g">>,
         <<"l", "o", "c", "a", "l", "h", "o", "s", "t">>,
         <<"b", "@", "c", ".", "c", "o", "m">>,
         <<"x", ".">>,
         <<>> }
EmailTexts ==
  {l \o <<"@">> \o d : l \in EmailLocals, d \in EmailDomains}
  \cup {<<"b", "o", "b">>, <<>>}

EmailCalls ==
  {<<Call("anonymize_email", sa, StrCell(t), NoOptions)>> :
     t \in EmailTexts, sa \in {NoSalt, SaltArg(<<"s">>)}}
  \cup {<<Call("anonymize_email", NoSalt, IntCell(7), NoOptions)>>}

\* ---- two engines, one call each
Salts ==
  {NoSalt, SaltArg(<<>>), SaltArg(DefaultSalt), SaltArg(<<"s", "1">>),
   SaltArg(<<"s", "2">>)}

HashCalls ==
  {Call("hash", sa, v, [algorithm |-> a]) :
     sa \in Salts, v \in {StrCell(<<"a">>), StrCell(<<"2", "5">>), IntCell(25)},
     a \in {"sha256", "md5", "rot13"}}
PseudonymizeCalls ==
  {Call("pseudonymize", sa, v, [prefix |-> pre]) :
     sa \in Salts, v \in {StrCell(<<"a">>), IntCell(25)},
     pre \in {<<"I", "D">>, <<"U">>}}
FormatCalls ==
  {Call("anonymize_email", sa, StrCell(t), NoOptions) :
     sa \in Salts, t \in {<<"a", "@", "x", ".", "o", "r", "g">>,
                          <<"b", "@", "x", ".", "o", "r", "g">>}}
  \cup {Call("anonymize_phone", sa, StrCell(t), NoOptions) :
          sa \in Salts, t \in {<<"5", "5", "5", "-", "1", "2", "3", "4">>,
                               <<"5", "5", "5", "-", "1", "2", "3", "5">>}}
  \cup {Call("anonymize_ssn", sa, StrCell(t), NoOptions) :
          sa \in Salts, t \in {Fill(DashedPattern, "1", "2"),
                               Fill(DashedPattern, "7", "2")}}

CallPairs ==
  {<<c1, c2>> : c1, c2 \in HashCalls}
  \cup {<<c1, c2>> : c1, c2 \in PseudonymizeCalls}
  \cup {<<c1, c2>> \in FormatCalls \X FormatCalls : c1.fn = c2.fn}
  \cup {<<c1, c2>> \in HashCalls \X PseudonymizeCalls :
          c1.arg.algorithm = "sha256" /\ c1.saltArg = c2.saltArg}

InitCalls ==
  /\ JobIdle
  /\ KIdle
  /\ SharedIdle
  /\ ApiIdle
  /\ calls \in PhoneCalls \cup SsnCalls \cup NumericCalls \cup NoiseCalls
                 \cup DateCalls \cup DateTriples \cup EmailCalls \cup CallPairs
                 \cup PerturbCalls \cup SubstituteCalls \cup MaskCalls
                 \cup SanitizeCalls
  /\ outs = <<>>

\* the call to be made next
Pending(fn) == Len(outs) < Len(calls) /\ calls[Len(outs) + 1].fn = fn
cur == calls[Len(outs) + 1]

\* variant: every engine salts with a value of its own (here the number of
\* calls made before) on top of its argument
CurSalt_PerEngine == EngineSalt(cur.saltArg) \o NatToStr(Len(outs))

\* the engine of the call: DataAnonymizer(salt)
CurSalt == EngineSalt(cur.saltArg)

Answer(o) == outs' = Append(outs, o) /\ UNCHANGED <<calls, jobVars, kVars, sharedVars, apiVars>>

\* hash_value(value, algorithm)
CallHash ==
  /\ Pending("hash")
  /\ Answer(IF HashRaises(cur.arg.algorithm) THEN Raised("ValueError")
            ELSE Returned(hash_value(cur.value, cur.arg.algorithm, CurSalt)))

\* pseudonymize_value(value, prefix)
CallPseudonymize ==
  /\ Pending("pseudonymize")
  /\ Answer(Returned(pseudonymize_value(cur.value, cur.arg.prefix, CurSalt)))

\* anonymize_email(value)
CallEmail ==
  /\ Pending("anonymize_email")
  /\ Answer(Returned(anonymize_email(cur.value, CurSalt)))

\* anonymize_phone(value)
CallPhone ==
  /\ Pending("anonymize_phone")
  /\ Answer(IF PhoneRaises(cur.value, CurSalt) THEN Raised("ValueError")
            ELSE Returned(anonymize_phone(cur.value, CurSalt)))

\* anonymize_ssn(value)
CallSsn ==
  /\ Pending("anonymize_ssn")
  /\ Answer(Returned(anonymize_ssn(cur.value, CurSalt)))

\* generalize_numeric(value, bin_size)
CallNumeric ==
  /\ Pending("generalize_numeric")
  /\ Answer(IF GenNumRaises(cur.value, cur.arg.bin_size)
            THEN Raised(IF cur.value.kind = "nan" THEN "ValueError"
                        ELSE "ZeroDivisionError")
            ELSE Returned(generalize_numeric(cur.value, cur.arg.bin_size)))

\* generalize_date(value, granularity)
CallDate ==
  /\ Pending("generalize_date")
  /\ Answer(Returned(generalize_date(cur.value, cur.arg.granularity)))

\* differential_privacy_noise(value, epsilon): the random source draws any
\* noise
CallNoise ==
  /\ Pending("differential_privacy")
  /\ IF NoiseRaises(cur.value, cur.arg.epsilon)
     THEN Answer(Raised("ZeroDivisionError"))
     ELSE \E noise \in (0 - MaxNoise)..MaxNoise :
            Answer([raised |-> "",
                    value |-> differential_privacy_noise(cur.value, noise),
                    drawn |-> noise])

\* perturb_value(value, logic_details): the random source draws any noise
\* the type and the range allow
CallPerturb ==
  /\ Pending("perturb")
  /\ \E noise \in (0 - MaxNoise)..MaxNoise :
       /\ IsNumber(cur.value) /\ cur.value.kind # "nan" =>
            PerturbNoise(cur.value, cur.arg, noise)
       /\ ~(IsNumber(cur.value) /\ cur.value.kind # "nan") => noise = 0
       /\ Answer([raised |-> "",
                  value |-> perturb_value(cur.value, cur.arg, noise),
                  drawn |-> noise])

\* substitute_value(value, logic_details): the random source draws any
\* position of the list
CallSubstitute ==
  /\ Pending("substitute")
  /\ \E pick \in 1..(IF SubstituteFrom(cur.arg) = <<>> THEN 1
                     ELSE Len(SubstituteFrom(cur.arg))) :
       Answer([raised |-> "",
               value |-> substitute_value(cur.value, cur.arg, pick),
               drawn |-> pick])

\* mask_value(value, mask_char, preserve_length)
CallMask ==
  /\ Pending("mask")
  /\ Answer(Returned(mask_value(cur.value, cur.arg.mask_char,
                                cur.arg.preserve_length)))

\* security_manager.sanitize_filename(filename)
CallSanitize ==
  /\ Pending("sanitize_filename")
  /\ Answer(Returned(StrCell(sanitize_filename(cur.value.txt))))

NextCalls ==
  \/ CallHash
  \/ CallPseudonymize
  \/ CallEmail
  \/ CallPhone
  \/ CallSsn
  \/ CallNumeric
  \/ CallDate
  \/ CallNoise
  \/ CallPerturb
  \/ CallSubstitute
  \/ CallMask
  \/ CallSanitize

SpecCalls == InitCalls /\ [][NextCalls]_vars

\* ------------------------- anonymize_dataframe called on one shared engine
\* the rows a..b of a table (df[a-1:b])
Rows(t, a, b) ==
  [rows |-> b - a + 1,
   cols |-> t.cols,
   data |-> [c \in DOMAIN t.data |-> SubSeq(t.data[c], a, b)]]

\* the methods that work cell by cell without the random source
PerCellMethods ==
  {"hash", "mask", "pseudonymize", "generalize_numeric", "generalize_date",
   "anonymize_email", "anonymize_phone", "anonymize_ssn"}

SharedEntriesA == {Bare("a", m) : m \in PerCellMethods}
SharedEntriesB ==
  {Obj("b", "hash", [algorithm |-> "md5"]),
   Obj("b", "generalize_numeric", [bin_size |-> 4])}

\* a call anonymize_dataframe(df, masking_config)
Frame(df, config) == [df |-> df, config |-> config]

\* a table in one pass and in two chunks of rows
ChunkPlans ==
  UNION {{<<Frame(t, c), Frame(Rows(t, 1, k), c),
            Frame(Rows(t, k + 1, t.rows), c)>> :
            k \in 0..t.rows,
            c \in {<<e>> : e \in SharedEntriesA}
                  \cup {<<Bare("a", "generalize_numeric"), f>> :
                          f \in SharedEntriesB}} :
         t \in Tables}
\* a table under a configuration and under the same in the other order
OrderPlans ==
  {<<Frame(t, <<e, f>>), Frame(t, <<f, e>>)>> :
     t \in Tables, e \in SharedEntriesA, f \in SharedEntriesB}
\* the two sheets of a workbook
SheetPlans ==
  {<<Frame(t, <<e>>), Frame(SecondTable, <<f>>)>> :
     t \in Tables, e \in SharedEntriesA, f \in SharedEntriesB \cup {BadEntry("a")}}
\* a table under a bare method name and under the object {method, options: {}}
FormPlans ==
  {<<Frame(t, <<Bare("a", m)>>), Frame(t, <<Obj("a", m, NoOptions)>>)>> :
     t \in Tables,
     m \in PerCellMethods \cup {"remove", "k_anonymity", "none", "frobnicate"}}

\* one iteration of the loop over masking_config.items() (lines 340-431) on
\* the frame df: the frame after it, what it printed, what it raised
DispatchFrame(df, entry, engineSalt, perm) ==
  IF ~HasColumn(df, entry.col)
  THEN [df |-> df, printed |-> <<>>, raised |-> ""]
  ELSE IF entry.form = "bad"
  THEN [df |-> df, printed |-> <<>>, raised |-> "AttributeError"]
  ELSE LET method == ResolveMethod(entry)
           series == df.data[entry.col]
       IN IF MethodRaises(method, entry, series)
          THEN [df |-> [df EXCEPT !.data[entry.col] =
                                    ExceptColumn(series, engineSalt)],
                printed |-> <<<<entry.col, method>>>>, raised |-> ""]
          ELSE IF method = "remove"
          THEN [df |-> DropColumn(df, entry.col), printed |-> <<>>, raised |-> ""]
          ELSE [df |-> [df EXCEPT !.data[entry.col] =
                                    MethodResult(method, entry, series,
                                                 engineSalt, perm)],
                printed |-> <<>>, raised |-> ""]

InitShared ==
  /\ JobIdle
  /\ KIdle
  /\ calls = <<>> /\ outs = <<>>
  /\ ApiIdle
  /\ plan \in ChunkPlans \cup OrderPlans \cup SheetPlans \cup FormPlans
  /\ runs = [w \in DOMAIN plan |->
               [state |-> "new", df |-> plan[w].df, i |-> 0, log |-> <<>>]]
  /\ engine \in {EngineSalt(NoSalt), EngineSalt(SaltArg(<<"s", "1">>))}

Shared(w, run) ==
  /\ runs' = [runs EXCEPT ![w] = run]
  /\ UNCHANGED <<plan, engine, jobVars, kVars, callVars, apiVars>>

\* line 338: df_anon = df.copy(), and the loop is entered
EnterFrame ==
  \E w \in DOMAIN plan :
    /\ runs[w].state = "new"
    /\ Shared(w, [state |-> "loop", df |-> plan[w].df, i |-> 1, log |-> <<>>])

\* lines 340-431: one iteration of the loop of one of the calls
ColumnOfFrame ==
  \E w \in DOMAIN plan :
    /\ runs[w].state = "loop"
    /\ runs[w].i <= Len(plan[w].config)
    /\ LET entry == plan[w].config[runs[w].i]
           n == IF HasColumn(runs[w].df, entry.col)
                THEN Len(runs[w].df.data[entry.col]) ELSE 0
       IN \E perm \in ShufflePerms(IF entry.form = "bad" THEN ""
                                   ELSE ResolveMethod(entry), n) :
            LET d == DispatchFrame(runs[w].df, entry, engine, perm)
            IN Shared(w, [state |-> IF d.raised = "" THEN "loop" ELSE "failed",
                          df |-> d.df,
                          i |-> IF d.raised = "" THEN runs[w].i + 1 ELSE runs[w].i,
                          log |-> runs[w].log \o d.printed])

\* line 433: return df_anon
ReturnOfFrame ==
  \E w \in DOMAIN plan :
    /\ runs[w].state = "loop"
    /\ runs[w].i > Len(plan[w].config)
    /\ Shared(w, [runs[w] EXCEPT !.state = "returned"])

NextShared ==
  \/ EnterFrame
  \/ ColumnOfFrame
  \/ ReturnOfFrame

SpecShared == InitShared /\ [][NextShared]_vars

\* --------------------------- the service (api/routes/anonymizer.py)
\* most requests the service is followed through
MaxRequests == 2
\* most hours the service is followed through, and the largest retention
MaxHours == 2

\* config.MAX_FILE_SIZE, in MB (core/config.py)
MAX_FILE_SIZE == 100

\* a file of a directory: its name and its size in MB
DiskFile(dir, name, size_mb) == [dir |-> dir, name |-> name, size_mb |-> size_mb]
OnDisk(dsk, dir, name) == \E f \in dsk : f.dir = dir /\ f.name = name
FileAt(dsk, dir, name) == CHOOSE f \in dsk : f.dir = dir /\ f.name = name

\* str.lower() of a character
Lower(c) == IF Ord(c) \in 65..90 THEN Printable[Ord(c) + 1] ELSE c

\* Path.suffix.lower(): from the last dot on, unless the dot is the first
\* or the last character
Suffix(name) ==
  LET d == RFind(name, ".")
  IN IF 1 < d /\ d < Len(name)
     THEN [i \in 1..(Len(name) - d + 1) |-> Lower(name[d + i - 1])]
     ELSE <<>>

AllowedExtensions ==
  {<<".", "c", "s", "v">>, <<".", "x", "l", "s", "x">>, <<".", "x", "l", "s">>}

\* validate_file_security (core/security.py, lines 27-68) of a file that
\* exists: the issues found
FileIssues(file, max_size_mb) ==
  (IF file.size_mb > max_size_mb THEN <<"size">> ELSE <<>>)
  \o (IF Suffix(file.name) \notin AllowedExtensions THEN <<"type">> ELSE <<>>)

\* register_temp_file (core/security.py, lines 142-144): a dict assignment
\* keeps the position of a key it already has
Register(registry, path, t) ==
  IF \E i \in DOMAIN registry : registry[i].path = path
  THEN [i \in DOMAIN registry |->
          IF registry[i].path = path THEN [path |-> path, created |-> t]
          ELSE registry[i]]
  ELSE Append(registry, [path |-> path, created |-> t])

\* JSON values of a configuration: strings and objects (their items in order)
JStr(text) == [kind |-> "str", s |-> text, items |-> <<>>]
JObj(items) == [kind |-> "obj", s |-> "", items |-> items]
JGet(obj, key, default) ==
  IF \E i \in DOMAIN obj.items : obj.items[i][1] = key
  THEN obj.items[CHOOSE i \in DOMAIN obj.items : obj.items[i][1] = key][2]
  ELSE default

\* valid_methods (core/security.py, lines 214-229)
valid_methods ==
  {"hash", "mask", "pseudonymize", "substitute", "shuffle", "perturb",
   "generalize_numeric", "generalize_date", "anonymize_email",
   "anonymize_phone", "anonymize_ssn", "k_anonymity", "differential_privacy",
   "remove"}

\* validate_anonymization_config (core/security.py, lines 209-242): the keys
\* an issue is reported for
validate_anonymization_config(config) ==
  SelectSeq([i \in DOMAIN config.items |->
               LET method == config.items[i][2]
                   method_name == IF method.kind = "obj"
                                  THEN JGet(method, "method", JStr(""))
                                  ELSE method
               IN IF method_name.kind = "str" /\ method_name.s \in valid_methods
                  THEN "" ELSE config.items[i][1]],
            LAMBDA k : k # "")

\* cleanup_temp_files (core/security.py, lines 124-144): the loop runs over
\* the dict it deletes from, so the step after the first deletion raises
\* RuntimeError (dictionary changed size during iteration)
cleanup_temp_files(registry, dsk, t, max_age_hours) ==
  LET hits == {i \in DOMAIN registry :
                 /\ t - registry[i].created > max_age_hours
                 /\ OnDisk(dsk, "uploads", registry[i].path)}
  IN IF hits = {}
     THEN [raised |-> "", cleaned |-> <<>>, registry |-> registry, disk |-> dsk]
     ELSE LET first == CHOOSE i \in hits : \A j \in hits : i <= j
          IN [raised |-> "RuntimeError",
              cleaned |-> <<registry[first].path>>,
              registry |-> SelectSeq(registry,
                                     LAMBDA e : e.path # registry[first].path),
              disk |-> {f \in dsk : ~(f.dir = "uploads"
                                      /\ f.name = registry[first].path)}]

\* ---- requests
CsvName(stem) == stem \o <<".", "c", "s", "v">>
UploadNames ==
  {CsvName(<<"d">>), CsvName(<<"a", ":", "b">>), <<"d", ".", "t", "x", "t">>}
Uploads == {[filename |-> n, size_mb |-> s] : n \in UploadNames, s \in {1, 101}}

\* the documented form: sheet -> column -> method string or object
NestedConfigs ==
  {[form |-> "map", items |-> <<<<"Sheet1", JObj(cols)>>>>] :
     cols \in {<<<<"name", JStr("hash")>>>>,
               <<<<"name", JStr("hash")>>,
                 <<"email", JObj(<<<<"method", JStr("mask")>>,
                                   <<"options", JObj(<<>>)>>>>)>>>>}}
\* column -> method string or object
FlatConfigs ==
  {[form |-> "map", items |-> i] :
     i \in {<<>>,
            <<<<"name", JStr("hash")>>>>,
            <<<<"name", JObj(<<<<"method", JStr("mask")>>>>)>>>>,
            <<<<"name", JStr("none")>>>>,
            <<<<"method", JObj(<<<<"method", JStr("hash")>>>>)>>>>}}
\* a text that is not JSON, and JSON that is no object
OtherConfigs ==
  {[form |-> "invalid", items |-> <<>>], [form |-> "notmap", items |-> <<>>]}

\* the first eight characters security_manager.generate_session_id can give
Tokens ==
  {<<"0", "0", "0", "0", "0", "0", "0", "0">>,
   <<"f", "f", "f", "f", "f", "f", "f", "f">>}

AnonymizeRequests ==
  {[filename |-> n, masking_config |-> c] :
     n \in {CsvName(<<"d">>), CsvName(<<"s">>), CsvName(<<"x">>)},
     c \in NestedConfigs \cup FlatConfigs \cup OtherConfigs}

Anonymized == <<"a", "n", "o", "n", "y", "m", "i", "z", "e", "d", "_">>

InitApi ==
  /\ JobIdle
  /\ KIdle
  /\ calls = <<>> /\ outs = <<>>
  /\ SharedIdle
  /\ disk = {DiskFile("samples", CsvName(<<"s">>), 1)}
  /\ temp_files = <<>>
  /\ tasks = <<>>
  /\ responses = <<>>
  /\ now = 0

\* the response to a request, and what the api leaves alone
Respond(route, request, status, body) ==
  /\ responses' = Append(responses, [route |-> route, request |-> request,
                                     status |-> status, body |-> body])
  /\ UNCHANGED <<now, jobVars, kVars, callVars, sharedVars>>

\* POST /upload (lines 20-93)
Upload ==
  /\ Len(responses) < MaxRequests
  /\ \E file \in Uploads :
       LET issues == FileIssues(DiskFile("temp", file.filename, file.size_mb),
                                MAX_FILE_SIZE)
           sanitized_filename == sanitize_filename(file.filename)
       IN IF issues # <<>>
          THEN \* the HTTPException of line 48 is caught at line 89
               /\ Respond("upload", file, 500, [detail |-> "Error uploading file"])
               /\ UNCHANGED <<disk, temp_files, tasks>>
          ELSE /\ disk' = {f \in disk : ~(f.dir = "uploads"
                                          /\ f.name = sanitized_filename)}
                          \cup {DiskFile("uploads", sanitized_filename,
                                         file.size_mb)}
               /\ temp_files' = Register(temp_files, sanitized_filename, now)
               /\ Respond("upload", file, 200,
                          [status |-> "success", filename |-> sanitized_filename])
               /\ UNCHANGED tasks

\* POST /anonymize (lines 96-204)
Anonymize ==
  /\ Len(responses) < MaxRequests
  /\ \E request \in AnonymizeRequests, token \in Tokens :
       LET config == request.masking_config
           sanitized_filename == sanitize_filename(request.filename)
           dir == IF OnDisk(disk, "uploads", sanitized_filename) THEN "uploads"
                  ELSE "samples"
           Reject(status, detail) ==
             /\ Respond("anonymize", request, status, [detail |-> detail])
             /\ UNCHANGED <<disk, temp_files, tasks>>
       IN IF config.form = "invalid"
          THEN Reject(400, "Invalid masking configuration JSON")
          ELSE IF config.form = "notmap"
          THEN Reject(500, "Error processing request")
          ELSE IF validate_anonymization_config(config) # <<>>
          THEN Reject(400, "Configuration validation failed")
          ELSE IF ~OnDisk(disk, dir, sanitized_filename)
          THEN Reject(404, "File not found")
          ELSE IF FileIssues(FileAt(disk, dir, sanitized_filename), 100) # <<>>
          THEN Reject(400, "Input file validation failed")
          ELSE LET output_filename ==
                     sanitize_filename(Anonymized \o token \o <<"_">>
                                       \o sanitized_filename)
               IN /\ temp_files' = Register(temp_files, output_filename, now)
                  /\ tasks' = Append(tasks,
                                     [input_path |-> <<dir, sanitized_filename>>,
                                      output_path |-> <<"uploads", output_filename>>,
                                      masking_config |-> config])
                  /\ Respond("anonymize", request, 200,
                             [status |-> "processing",
                              result_file |-> output_filename])
                  /\ UNCHANGED disk

\* POST /cleanup (lines 238-253), whatever TEMP_FILE_RETENTION_HOURS is
Cleanup ==
  /\ Len(responses) < MaxRequests
  /\ \E max_age_hours \in 0..MaxHours :
       LET c == cleanup_temp_files(temp_files, disk, now, max_age_hours)
       IN /\ disk' = c.disk
          /\ temp_files' = c.registry
          /\ IF c.raised = ""
             THEN Respond("cleanup", [max_age_hours |-> max_age_hours], 200,
                          [status |-> "success", cleaned_files |-> c.cleaned])
             ELSE Respond("cleanup", [max_age_hours |-> max_age_hours], 500,
                          [detail |-> "Error during cleanup"])
          /\ UNCHANGED tasks

\* an hour passes
Tick ==
  /\ now < MaxHours
  /\ now' = now + 1
  /\ UNCHANGED <<disk, temp_files, tasks, responses, jobVars, kVars, callVars,
                 sharedVars>>

NextApi ==
  \/ Upload
  \/ Anonymize
  \/ Cleanup
  \/ Tick

SpecApi == InitApi /\ [][NextApi]_vars

\* ---------------------------------------------------------- properties
\* the table load_data read for a sheet
Original(name) ==
  IF input.suffix = ".csv" THEN input.tables[1] ELSE SheetTable(input, name)

\* the sheets anonymize_dataframe has returned
Finished == DOMAIN anonymized_sheets
OutTable(i) == frames[anonymized_sheets[i].ref]
InTable(i) == Original(anonymized_sheets[i].name)
ConfigOf(i) == SheetConfig(masking_config, anonymized_sheets[i].name).cols

\* the entries of a sheet's configuration that name a column of the table
Present(t, entries) ==
  {n \in DOMAIN entries : HasColumn(t, entries[n].col)}

\* the dispatcher logged a failure of col in the sheet
Logged(name, col) ==
  \E n \in DOMAIN log : log[n][1] = name /\ log[n][2] = col

\* the column col of table out is what the entry makes of the column of inp
TransformedAs(out, inp, e) ==
  IF ResolveMethod(e) = "remove" THEN ~HasColumn(out, e.col)
  ELSE /\ HasColumn(out, e.col)
       /\ \E perm \in ShufflePerms(ResolveMethod(e), inp.rows) :
            out.data[e.col] =
              MethodResult(ResolveMethod(e), e, inp.data[e.col], salt, perm)

\* C1: in every sheet the dispatcher has returned, a column whose method
\* raised (it was logged) holds its original cells at every row, every other
\* configured column is transformed as its own entry alone determines, and a
\* sheet whose entries are all method strings or objects never ends the job
\* with an exception.
C1_FailureIsolated ==
  /\ \A i \in Finished :
       \A n \in Present(InTable(i), ConfigOf(i)) :
         LET e == ConfigOf(i)[n] IN
         IF Logged(anonymized_sheets[i].name, e.col)
         THEN /\ HasColumn(OutTable(i), e.col)
              /\ OutTable(i).data[e.col] = InTable(i).data[e.col]
         ELSE TransformedAs(OutTable(i), InTable(i), e)
  /\ (/\ pc = "failed"
      /\ sheetIdx \in DOMAIN sheets
      /\ IsMapping(masking_config)
      /\ IsMapping(CurConfig))
     => \E n \in Present(Original(CurSheet.name), CurConfig.cols) :
          CurConfig.cols[n].form = "bad"

\* C1 witness: the job is done, a column failed and stayed as it was while
\* another column of the same sheet was transformed into something else
C1_Witness ==
  /\ pc = "done"
  /\ \E i \in Finished :
       /\ Logged(anonymized_sheets[i].name, "a")
       /\ InTable(i).rows > 0
       /\ OutTable(i).data["a"] = InTable(i).data["a"]
       /\ <<anonymized_sheets[i].name, "b">> \in written
       /\ HasColumn(OutTable(i), "b")
       /\ OutTable(i).data["b"] # InTable(i).data["b"]

\* the entries of a finished sheet that name a column of the table and
\* resolve to a method of the set ms
EntriesWith(i, ms) ==
  {n \in Present(InTable(i), ConfigOf(i)) :
     /\ ConfigOf(i)[n].form # "bad"
     /\ ResolveMethod(ConfigOf(i)[n]) \in ms}

\* C2 as claimed: a column whose method is none comes out cell for cell as
\* it went in.
C2_NonePassesThrough ==
  \A i \in Finished :
    \A n \in EntriesWith(i, {"none"}) :
      LET col == ConfigOf(i)[n].col IN
      /\ HasColumn(OutTable(i), col)
      /\ OutTable(i).data[col] = InTable(i).data[col]

\* the sha256 digest of str(value) followed by the salt
DefaultDigest(v) == DigestCell("sha256", Str(v) \o salt)

\* C2 as amended: the dispatcher has no branch for none; a column whose
\* method is none is hashed like one of any unknown method, every cell
\* becoming the sha256 digest of str(cell) followed by the salt.
C2_NoneIsHashed ==
  \A i \in Finished :
    \A n \in EntriesWith(i, {"none"}) :
      LET col == ConfigOf(i)[n].col IN
      /\ HasColumn(OutTable(i), col)
      /\ OutTable(i).data[col] =
           [r \in 1..InTable(i).rows |-> DefaultDigest(InTable(i).data[col][r])]

\* C2 witness: a finished sheet with a none column of at least one row
C2_Witness ==
  \E i \in Finished :
    /\ EntriesWith(i, {"none"}) # {}
    /\ InTable(i).rows > 0
    /\ pc = "done"

\* the entries of a finished sheet that ask for hash with an algorithm
\* outside {sha256, sha512, md5}
BadAlgorithm(i) ==
  {n \in EntriesWith(i, {"hash"}) :
     /\ ConfigOf(i)[n].optsOk
     /\ Get(ConfigOf(i)[n].options, "algorithm", "sha256")
          \notin {"sha256", "sha512", "md5"}}

\* C3 as claimed: a job with a hash column of an unsupported algorithm
\* never completes and never writes an output file.
C3_BadAlgorithmFailsJob ==
  (\E i \in Finished : BadAlgorithm(i) # {}) => (pc # "done" /\ outFile = <<>>)

\* C3 as amended: the ValueError of an unsupported hash algorithm is caught
\* by the dispatcher; a column of at least one row is logged and keeps its
\* original cells, the caller sees no error of it, and the job that
\* completes has written its output with that column in it.
C3_BadAlgorithmIsSkipped ==
  /\ \A i \in Finished :
       \A n \in BadAlgorithm(i) :
         LET col == ConfigOf(i)[n].col IN
         InTable(i).rows > 0 =>
           /\ Logged(anonymized_sheets[i].name, col)
           /\ HasColumn(OutTable(i), col)
           /\ OutTable(i).data[col] = InTable(i).data[col]
  /\ pc = "done" =>
       /\ outFile # <<>>
       /\ outFile[1].table = OutTable(1)

\* C3 witness: a completed job whose output holds a column that asked for
\* an unsupported algorithm
C3_Witness ==
  /\ pc = "done"
  /\ outFile # <<>>
  /\ BadAlgorithm(1) # {}
  /\ \E n \in BadAlgorithm(1) :
       /\ HasColumn(outFile[1].table, ConfigOf(1)[n].col)
       /\ InTable(1).rows > 0

\* C4: the frames load_data returned hold, in every state of the job, the
\* columns, rows and cells they were loaded with.
C4_InputNotMutated ==
  \A i \in DOMAIN sheets : frames[sheets[i].ref] = Original(sheets[i].name)

\* C4 witness: a completed job that removed one column, transformed another
\* and left the loaded frame as it was
C4_Witness ==
  /\ pc = "done"
  /\ \E i \in Finished :
       /\ ~HasColumn(OutTable(i), "a")
       /\ HasColumn(OutTable(i), "b")
       /\ OutTable(i).data["b"] # InTable(i).data["b"]
       /\ InTable(i).rows > 0
       /\ frames[sheets[i].ref] = InTable(i)

\* the column names a sheet's entry of the configuration lists
Listed(name) ==
  IF name \in DOMAIN masking_config.sheets
  THEN {masking_config.sheets[name].cols[n].col :
          n \in DOMAIN masking_config.sheets[name].cols}
  ELSE {}

\* C5: in every returned sheet a column the configuration does not list is
\* there with its input cells; a sheet without an entry, or one whose listed
\* names are no columns of the table, is returned equal to its input; and no
\* listed name that is not a column ends the job.
C5_UnlistedUnchanged ==
  /\ \A i \in Finished :
       LET name == anonymized_sheets[i].name
           present == {InTable(i).cols[k] : k \in DOMAIN InTable(i).cols}
       IN /\ \A c \in present \ Listed(name) :
               /\ HasColumn(OutTable(i), c)
               /\ OutTable(i).data[c] = InTable(i).data[c]
          /\ name \notin DOMAIN masking_config.sheets => OutTable(i) = InTable(i)
          /\ Listed(name) \cap present = {} => OutTable(i) = InTable(i)
  /\ (pc = "failed" /\ error = <<"AttributeError", 349>>) =>
       HasColumn(Original(CurSheet.name), CurConfig.cols[colIdx].col)

\* C5 witness: a completed job with a sheet the configuration has no entry
\* for and a sheet with a listed column, an unlisted column and a listed
\* name that is no column
C5_Witness ==
  /\ pc = "done"
  /\ \E i \in Finished :
       /\ anonymized_sheets[i].name \notin DOMAIN masking_config.sheets
       /\ InTable(i).rows > 0
  /\ \E i \in Finished :
       /\ Listed(anonymized_sheets[i].name) = {"a", "z"}
       /\ InTable(i).rows > 0
       /\ OutTable(i).data["a"] # InTable(i).data["a"]

\* the columns a finished sheet's configuration asks to remove
Removed(i) ==
  {ConfigOf(i)[n].col : n \in EntriesWith(i, {"remove"})}

\* C6: the returned sheets are the loaded sheets in order, each with the
\* row count of its input and with the input's columns, in order, less the
\* columns configured remove; once all are returned there is one per loaded
\* sheet.
C6_ShapePreserved ==
  /\ \A i \in Finished :
       /\ anonymized_sheets[i].name = sheets[i].name
       /\ OutTable(i).rows = InTable(i).rows
       /\ \A k \in DOMAIN OutTable(i).cols :
            Len(OutTable(i).data[OutTable(i).cols[k]]) = InTable(i).rows
       /\ OutTable(i).cols =
            SelectSeq(InTable(i).cols, LAMBDA c : c \notin Removed(i))
  /\ pc \in {"done"} \/ (pc = "sheet" /\ sheetIdx > Len(sheets)) =>
       Len(anonymized_sheets) = Len(sheets)

\* C6 witness: a completed job in which one column was removed and the
\* method of another failed
C6_Witness ==
  /\ pc = "done"
  /\ \E i \in Finished :
       /\ Removed(i) # {}
       /\ Logged(anonymized_sheets[i].name, "b")
       /\ InTable(i).rows > 0
       /\ Len(OutTable(i).cols) = 1

\* the closed enumeration of method kinds
MethodKind ==
  {"none", "hash", "mask", "pseudonymize", "substitute", "shuffle", "perturb",
   "generalize_numeric", "generalize_date", "anonymize_email", "anonymize_phone",
   "anonymize_ssn", "k_anonymity", "differential_privacy", "remove"}

\* the entries of a finished sheet whose method is no method kind
Unknown(i) ==
  {n \in Present(InTable(i), ConfigOf(i)) :
     /\ ConfigOf(i)[n].form # "bad"
     /\ ResolveMethod(ConfigOf(i)[n]) \notin MethodKind}

\* C7: a column whose method is outside the enumeration comes out, whatever
\* its options, with every cell the sha256 digest of str(cell) followed by
\* the salt, and nothing is logged or raised for it.
C7_UnknownIsDefaultHash ==
  \A i \in Finished :
    \A n \in Unknown(i) :
      LET col == ConfigOf(i)[n].col IN
      /\ HasColumn(OutTable(i), col)
      /\ OutTable(i).data[col] =
           [r \in 1..InTable(i).rows |-> DefaultDigest(InTable(i).data[col][r])]
      /\ ~Logged(anonymized_sheets[i].name, col)

\* C7 witness: a completed job with a column of an unknown method that
\* came with an algorithm option
C7_Witness ==
  /\ pc = "done"
  /\ \E i \in Finished :
       \E n \in Unknown(i) :
         /\ "algorithm" \in DOMAIN ConfigOf(i)[n].options
         /\ InTable(i).rows > 0

\* the selector names a sheet the workbook does not have
SheetMissing ==
  /\ input.exists
  /\ input.suffix \in {".xlsx", ".xls"}
  /\ selected_sheet # ""
  /\ \A i \in DOMAIN input.names : input.names[i] # selected_sheet

\* the job has left load_data behind
PastLoad == pc \notin {"start", "load", "idle"}

\* C8 as claimed: with no input file, or with a selector that names no
\* sheet of the workbook, the job ends in an error as soon as it loads and
\* writes no output.
C8_MissingInputFails ==
  (~input.exists \/ SheetMissing) =>
    /\ outFile = <<>>
    /\ PastLoad => pc = "failed"

\* C8 as amended: with no input file the job ends in an error as soon as it
\* loads, nothing is loaded and no output is written; a selector that names
\* no sheet of the workbook is no error: every sheet of the workbook is
\* loaded and the job goes on with all of them.
C8_MissingFileFails ==
  /\ ~input.exists =>
       /\ outFile = <<>>
       /\ sheets = <<>>
       /\ PastLoad => pc = "failed"
  /\ (SheetMissing /\ PastLoad /\ sheets # <<>>) =>
       /\ [i \in DOMAIN sheets |-> sheets[i].name] = input.names
       /\ \A i \in DOMAIN sheets :
            frames[sheets[i].ref] = input.tables[i]

\* C8 witness: a job whose selector names no sheet of the workbook has
\* completed with every sheet in its output
C8_Witness ==
  /\ pc = "done"
  /\ SheetMissing
  /\ Len(outFile) = Len(input.names)
  /\ Len(outFile) > 1

\* the configuration has a malformed part: no JSON, no mapping, a sheet
\* entry that is no mapping, a column entry that is no string and no object
Malformed ==
  \/ masking_config.form # "map"
  \/ \E name \in DOMAIN masking_config.sheets :
       \/ masking_config.sheets[name].form # "map"
       \/ \E n \in DOMAIN masking_config.sheets[name].cols :
            masking_config.sheets[name].cols[n].form = "bad"

\* C9 as claimed: with a malformed configuration no column of any sheet is
\* ever transformed and the job neither completes nor writes output.
C9_MalformedFailsFirst ==
  Malformed => (written = {} /\ outFile = <<>> /\ pc # "done")

\* C9 as amended: a configuration that is no JSON or no mapping ends the
\* job before any frame is copied or column transformed; a malformed sheet
\* or column entry ends it only where the loops reach it (its sheet loaded,
\* its column in the table), possibly after other columns were transformed;
\* a job that ended in an error has written no output, and a job that
\* completed met no such entry.
C9_MalformedFailsWhereReached ==
  /\ masking_config.form # "map" =>
       /\ written = {}
       /\ anonymized_sheets = <<>>
       /\ df_anon = 0
       /\ outFile = <<>>
       /\ pc \in {"start", "load", "sheet", "failed"}
       /\ pc = "sheet" => sheetIdx = 1
  /\ pc = "failed" => outFile = <<>>
  /\ pc = "done" =>
       \A i \in DOMAIN sheets :
         LET name == sheets[i].name IN
         name \in DOMAIN masking_config.sheets =>
           /\ masking_config.sheets[name].form = "map"
           /\ \A n \in Present(Original(name), masking_config.sheets[name].cols) :
                masking_config.sheets[name].cols[n].form # "bad"

\* C9 witness: the job ended at a malformed column entry after it had
\* transformed another column, and wrote nothing
C9_Witness ==
  /\ pc = "failed"
  /\ error = <<"AttributeError", 349>>
  /\ written # {}
  /\ outFile = <<>>

\* C10 as claimed: the result has the length of the column; a position
\* whose original value occurs fewer than k times holds the sentinel, every
\* other position its original value.
C10_SuppressBelowK ==
  kPc = "done" =>
    /\ Len(kOut) = Len(kSeries)
    /\ \A i \in DOMAIN kSeries :
         kOut[i] = IF Count(kSeries, kSeries[i]) < kK THEN SUPPRESSED
                   ELSE kSeries[i]

\* C10 as amended: the result has the length of the column; a position
\* whose original value is not missing and occurs fewer than k times holds
\* the sentinel, every other position (a missing cell among them, however
\* rare) its original value; so a retained value that is neither missing
\* nor the sentinel occurs at least k times in the original column.
C10_SuppressPresentBelowK ==
  kPc = "done" =>
    /\ Len(kOut) = Len(kSeries)
    /\ \A i \in DOMAIN kSeries :
         kOut[i] = IF kSeries[i].kind # "nan" /\ Count(kSeries, kSeries[i]) < kK
                   THEN SUPPRESSED
                   ELSE kSeries[i]
    /\ \A i \in DOMAIN kOut :
         (kOut[i].kind # "nan" /\ kOut[i] # SUPPRESSED) =>
           Count(kSeries, kOut[i]) >= kK

\* C10 witness: a call that suppressed one value, kept another that occurs
\* k times and left a rare missing cell
C10_Witness ==
  /\ kPc = "done"
  /\ kK > 1
  /\ \E i \in DOMAIN kSeries : kSeries[i] # SUPPRESSED /\ kOut[i] = SUPPRESSED
  /\ \E i \in DOMAIN kSeries :
       /\ kOut[i] = kSeries[i]
       /\ kOut[i].kind = "str"
       /\ Count(kSeries, kSeries[i]) = kK
  /\ \E i \in DOMAIN kSeries : kOut[i].kind = "nan"

\* C11: in every returned sheet a column configured shuffle has the length
\* of its input column and holds every value as often as the input column
\* does; the columns the configuration does not list hold their input cells
\* row for row, and a column hashed next to it holds at every row the digest
\* of its own input cell of that row.
C11_ShuffleKeepsMultiset ==
  \A i \in Finished :
    \A n \in EntriesWith(i, {"shuffle"}) :
      LET col == ConfigOf(i)[n].col
          out == OutTable(i)
          inp == InTable(i)
      IN /\ HasColumn(out, col)
         /\ out.rows = inp.rows
         /\ Len(out.data[col]) = Len(inp.data[col])
         /\ \A r \in DOMAIN inp.data[col] :
              Count(out.data[col], inp.data[col][r])
                = Count(inp.data[col], inp.data[col][r])
         /\ \A k \in DOMAIN inp.cols :
              LET c == inp.cols[k] IN
              /\ c \notin Listed(anonymized_sheets[i].name) =>
                   /\ HasColumn(out, c)
                   /\ out.data[c] = inp.data[c]
              /\ (\E m \in DOMAIN ConfigOf(i) : ConfigOf(i)[m] = Bare(c, "hash")) =>
                   /\ HasColumn(out, c)
                   /\ \A r \in 1..inp.rows :
                        out.data[c][r] = DefaultDigest(inp.data[c][r])

\* C11 witness: a completed job whose shuffled column of two different
\* cells came out in the other order next to an unlisted column
C11_Witness ==
  /\ pc = "done"
  /\ \E i \in Finished :
       /\ EntriesWith(i, {"shuffle"}) # {}
       /\ InTable(i).rows = 2
       /\ InTable(i).data["a"][1] # InTable(i).data["a"][2]
       /\ OutTable(i).data["a"][1] = InTable(i).data["a"][2]
       /\ OutTable(i).data["a"][2] = InTable(i).data["a"][1]
       /\ "b" \notin Listed(anonymized_sheets[i].name)
       /\ OutTable(i).data["b"] = InTable(i).data["b"]

\* the calls made so far of a method on a str
StrCallsOf(fn) ==
  {n \in DOMAIN outs : calls[n].fn = fn /\ calls[n].value.kind = "str"}

\* text out has the length of text inp, its characters that are no digits
\* where inp has them, and digits where inp has digits
SameFormat(inp, out) ==
  /\ Len(out) = Len(inp)
  /\ \A i \in DOMAIN inp :
       IF IsDigit(inp[i]) THEN IsDigit(out[i]) ELSE out[i] = inp[i]

\* C12 as claimed: a call of anonymize_phone on a string, whatever the
\* number of its digits, returns (it does not raise) a string of the same
\* length with every character that is no digit unchanged in its place and a
\* decimal digit at every digit's place.
C12_PhoneKeepsFormat ==
  \A n \in StrCallsOf("anonymize_phone") :
    /\ outs[n].raised = ""
    /\ outs[n].value.kind = "str"
    /\ SameFormat(calls[n].value.txt, outs[n].value.txt)

\* C13 as claimed: a call of anonymize_ssn on a string returns a string of
\* the same length with every character that is no digit unchanged in its
\* place.
C13_SsnKeepsFormat ==
  \A n \in StrCallsOf("anonymize_ssn") :
    LET inp == calls[n].value.txt
        out == outs[n].value.txt
    IN /\ outs[n].raised = ""
       /\ Len(out) = Len(inp)
       /\ \A i \in DOMAIN inp : ~IsDigit(inp[i]) => out[i] = inp[i]

AllDigits(t) == \A i \in DOMAIN t : IsDigit(t[i])

\* three digits, a dash, two digits, a dash, four digits
Dashed(t) ==
  /\ Len(t) = 11
  /\ t[4] = "-" /\ t[7] = "-"
  /\ AllDigits(SubSeq(t, 1, 3)) /\ AllDigits(SubSeq(t, 5, 6))
  /\ AllDigits(SubSeq(t, 8, 11))

\* C13 as amended: a call of anonymize_ssn on a string returns nine digits
\* when the string begins with nine digits, and otherwise three digits, a
\* dash, two digits, a dash and four digits, whatever the string's length
\* and punctuation; so length and the places of the dashes are those of the
\* input exactly when the input is DDD-DD-DDDD or nine digits and nothing
\* more.
C13_SsnTwoFormats ==
  \A n \in StrCallsOf("anonymize_ssn") :
    LET inp == calls[n].value.txt
        out == outs[n].value.txt
        nine == Len(inp) >= 9 /\ AllDigits(SubSeq(inp, 1, 9))
    IN /\ outs[n].raised = ""
       /\ outs[n].value.kind = "str"
       /\ IF nine THEN Len(out) = 9 /\ AllDigits(out) ELSE Dashed(out)
       /\ (Dashed(inp) \/ (nine /\ Len(inp) = 9)) <=> SameFormat(inp, out)

\* C13 witness: a call on a text DDD-DD-DDDD gave other digits in the same
\* format
C13_Witness ==
  \E n \in StrCallsOf("anonymize_ssn") :
    /\ Dashed(calls[n].value.txt)
    /\ SameFormat(calls[n].value.txt, outs[n].value.txt)
    /\ outs[n].value # calls[n].value

\* the calls made so far of generalize_numeric on a number with a bin size
\* of at least one
BinnedCalls ==
  {n \in DOMAIN outs :
     /\ calls[n].fn = "generalize_numeric"
     /\ calls[n].value.kind \in {"int", "float"}
     /\ calls[n].arg.bin_size >= 1}

\* the value of a number cell in quarters
Quarters(v) == IF v.kind = "int" THEN 4 * v.num ELSE v.num

\* the text "s-e" of a bin
BinText(start, end) == StrCell(IntToStr(start) \o <<"-">> \o IntToStr(end))

\* C14 as claimed: for every number v, whole or fractional, negative or
\* not, and every bin size b >= 1, generalize_numeric returns "s-e" with
\* s = floor(v / b) * b and e = s + b - 1, and s <= v <= e.
C14_BinContainsValue ==
  \A n \in BinnedCalls :
    LET q == Quarters(calls[n].value)
        b == calls[n].arg.bin_size
        start == (q \div (4 * b)) * b
        end == start + b - 1
    IN /\ outs[n] = Returned(BinText(start, end))
       /\ 4 * start <= q /\ q <= 4 * end

\* C14 as amended: generalize_numeric bins int(v), the number cut off
\* toward zero: it returns "s-e" with s = floor(int(v) / b) * b and
\* e = s + b - 1, and s <= int(v) <= e.  For a whole v that is
\* s = floor(v / b) * b and s <= v <= e; a fractional v lies in
\* (s - 1, e + 1), above e or below s when int(v) is e or s.
C14_BinContainsTruncated ==
  \A n \in BinnedCalls :
    LET q == Quarters(calls[n].value)
        b == calls[n].arg.bin_size
        a == IF q < 0 THEN 0 - q ELSE q
        t == CHOOSE t \in (0 - a)..a :
               IF q >= 0 THEN 4 * t <= q /\ q < 4 * t + 4
               ELSE 4 * t - 4 < q /\ q <= 4 * t
        start == (t \div b) * b
        end == start + b - 1
    IN /\ outs[n] = Returned(BinText(start, end))
       /\ start <= t /\ t <= end
       /\ 4 * start - 4 < q /\ q < 4 * end + 4
       /\ calls[n].value.kind = "int" =>
            /\ start = (q \div (4 * b)) * b
            /\ 4 * start <= q /\ q <= 4 * end

\* C14 witness: the call on -0.5 with bin size 4 returned the bin "0-3"
C14_Witness ==
  \E n \in BinnedCalls :
    /\ calls[n].value = FloatCell(0 - 2)
    /\ calls[n].arg.bin_size = 4
    /\ outs[n] = Returned(BinText(0, 3))

\* the calls of differential_privacy_noise that returned
NoisyCalls ==
  {n \in DOMAIN outs :
     calls[n].fn = "differential_privacy" /\ outs[n].raised = ""}

\* C15 as claimed: for an int and whatever noise was drawn the result is the
\* integer nearest to value + noise; a value that is no number is returned
\* as it is.
C15_NoiseRoundsToNearest ==
  \A n \in NoisyCalls :
    LET v == calls[n].value
        x == 4 * v.num + outs[n].drawn
    IN /\ v.kind = "int" =>
            /\ outs[n].value.kind = "int"
            /\ 4 * outs[n].value.num - 2 <= x
            /\ x <= 4 * outs[n].value.num + 2
       /\ v.kind = "str" => outs[n].value = v

\* C15 as amended: for an int and whatever noise was drawn the result is
\* int(value + noise), the sum cut off toward zero (within one of the sum,
\* not the nearest integer); for a float it is the sum itself; a value that
\* is no number is returned as it is.
C15_NoiseTruncates ==
  \A n \in NoisyCalls :
    LET v == calls[n].value
        x == 4 * v.num + outs[n].drawn
        r == outs[n].value
    IN /\ v.kind = "int" =>
            /\ r.kind = "int"
            /\ IF x >= 0 THEN 4 * r.num <= x /\ x < 4 * r.num + 4
               ELSE 4 * r.num - 4 < x /\ x <= 4 * r.num
       /\ v.kind = "float" => r = FloatCell(v.num + outs[n].drawn)
       /\ v.kind = "str" => r = v

\* C15 witness: the int 1 with a noise of 0.75 came back as 1
C15_Witness ==
  \E n \in NoisyCalls :
    /\ calls[n].value = IntCell(1)
    /\ outs[n].drawn = 3
    /\ outs[n].value = IntCell(1)

\* the calls made so far of generalize_date on a text written from a year,
\* a month and a day
DatedCalls ==
  {n \in DOMAIN outs :
     calls[n].fn = "generalize_date" /\ calls[n].arg.style \in DateStyles}

\* year y, month m, day d is a date of the calendar
IsDate(y, m, d) == y >= 1 /\ m \in 1..12 /\ d >= 1 /\ d <= DaysIn(y, m)

\* the month under the first accepted format the text of a call reads as a
\* date in, 0 when there is none: a text a/b/y is month a and day b if that
\* is a date, else day a and month b
MonthRead(a) ==
  CASE a.style \in {"iso", "isodt"} -> IF IsDate(a.y, a.m, a.d) THEN a.m ELSE 0
    [] a.style = "us" -> IF IsDate(a.y, a.m, a.d) THEN a.m
                         ELSE IF IsDate(a.y, a.d, a.m) THEN a.d
                         ELSE 0
    [] a.style = "eu" -> IF IsDate(a.y, a.d, a.m) THEN a.d
                         ELSE IF IsDate(a.y, a.m, a.d) THEN a.m
                         ELSE 0
    [] OTHER -> 0

\* C16: a text that reads as a date of year y and month m under the first
\* accepted format it matches comes back as "y" at granularity year, as
\* "y-mm" (two digits) at month and as "y-Qn" with n = ceil(m / 3) at
\* quarter; a text that matches no accepted format comes back unchanged.
C16_DateGranularity ==
  /\ \A n \in DatedCalls :
       LET a == calls[n].arg
           m == MonthRead(a)
           year == IntToStr(a.y)
           mm == IF m < 10 THEN <<"0", DigitChar(m)>> ELSE <<"1", DigitChar(m - 10)>>
           q == CHOOSE k \in 1..4 : 3 * (k - 1) < m /\ m <= 3 * k
       IN /\ outs[n].raised = ""
          /\ IF m = 0 THEN outs[n].value = calls[n].value
             ELSE CASE a.granularity = "year" -> outs[n].value = StrCell(year)
                    [] a.granularity = "month" ->
                         outs[n].value = StrCell(year \o <<"-">> \o mm)
                    [] a.granularity = "quarter" ->
                         outs[n].value = StrCell(year \o <<"-", "Q", DigitChar(q)>>)
                    [] OTHER -> TRUE
  /\ \A n \in DOMAIN outs :
       (calls[n].fn = "generalize_date" /\ calls[n].arg.style = "none"
          /\ calls[n].value.kind = "str")
         => outs[n] = Returned(calls[n].value)

\* C16 witness: the text 13/6/2024, a date under the third format only,
\* came back as 2024-Q2
C16_Witness ==
  \E n \in DatedCalls :
    /\ calls[n].value = StrCell(<<"1", "3", "/", "6", "/", "2", "0", "2", "4">>)
    /\ calls[n].arg.granularity = "quarter"
    /\ outs[n].value = StrCell(<<"2", "0", "2", "4", "-", "Q", "2">>)

\* three dates have each been generalized at year, quarter and month
ThreeDatesDone == Len(calls) = 9 /\ Len(outs) = 9

\* the outputs of the i-th of the three dates
AtYear(i) == outs[3 * i - 2].value
AtQuarter(i) == outs[3 * i - 1].value
AtMonth(i) == outs[3 * i].value

\* C17 as claimed: two dates with equal outputs at month have equal outputs
\* at year, and two dates with equal outputs at quarter have equal outputs
\* at month.
C17_MonthCoarserThanQuarter ==
  ThreeDatesDone =>
    \A i, j \in 1..3 :
      /\ AtMonth(i) = AtMonth(j) => AtYear(i) = AtYear(j)
      /\ AtQuarter(i) = AtQuarter(j) => AtMonth(i) = AtMonth(j)

\* C17 as amended: the order is year, quarter, month from coarse to fine:
\* two dates with equal outputs at month have equal outputs at quarter, and
\* two dates with equal outputs at quarter have equal outputs at year (so
\* equal outputs at month imply equal outputs at year).
C17_QuarterCoarserThanMonth ==
  ThreeDatesDone =>
    \A i, j \in 1..3 :
      /\ AtMonth(i) = AtMonth(j) => AtQuarter(i) = AtQuarter(j)
      /\ AtQuarter(i) = AtQuarter(j) => AtYear(i) = AtYear(j)
      /\ AtMonth(i) = AtMonth(j) => AtYear(i) = AtYear(j)

\* C17 witness, the strictness of each step: the first and the second date
\* are merged at quarter and separated at month, the first and the third
\* are merged at year and separated at quarter
C17_Witness ==
  /\ ThreeDatesDone
  /\ AtQuarter(1) = AtQuarter(2) /\ AtMonth(1) # AtMonth(2)
  /\ AtYear(1) = AtYear(3) /\ AtQuarter(1) # AtQuarter(3)

\* the calls made so far of anonymize_email on a text with an @
AddressCalls ==
  {n \in StrCallsOf("anonymize_email") :
     \E i \in DOMAIN calls[n].value.txt : calls[n].value.txt[i] = "@"}

\* the text before and the text after the first @ of a call's address
LocalOf(n) ==
  SubSeq(calls[n].value.txt, 1, Find(calls[n].value.txt, "@") - 1)
DomainOf(n) ==
  SubSeq(calls[n].value.txt, Find(calls[n].value.txt, "@") + 1,
         Len(calls[n].value.txt))

\* the first k hex digits of the sha256 digest of text under a call's salt
HashHead(n, text, k) ==
  SubSeq(hexdigest(DigestCell("sha256", text \o EngineSalt(calls[n].saltArg))),
         1, k)

\* "user", the first 8 hex digits of the hash of the local part, and "@"
UserPart(n) == <<"u", "s", "e", "r">> \o HashHead(n, LocalOf(n), 8) \o <<"@">>

\* text t ends with text e
EndsWith(t, e) ==
  Len(t) >= Len(e) /\ SubSeq(t, Len(t) - Len(e) + 1, Len(t)) = e

\* the text after the last dot of a domain
TldOf(domain) == SubSeq(domain, RFind(domain, ".") + 1, Len(domain))

\* C18 as claimed: an address comes back as "user", the first 8 hex digits
\* of the hash of its local part, "@" and a domain d; d is the original
\* domain when that is gmail.com, yahoo.com or outlook.com, and for every
\* other domain d differs from the original and ends with its TLD.
C18_OtherDomainsReplaced ==
  \A n \in AddressCalls :
    LET out == outs[n].value.txt
        d == SubSeq(out, Len(UserPart(n)) + 1, Len(out))
    IN /\ outs[n].raised = ""
       /\ SubSeq(out, 1, Len(UserPart(n))) = UserPart(n)
       /\ IF DomainOf(n) \in CommonDomains THEN d = DomainOf(n)
          ELSE d # DomainOf(n) /\ EndsWith(d, TldOf(DomainOf(n)))

\* C18 as amended: an address comes back as "user", the first 8 hex digits
\* of the hash of its local part, "@" and a domain d; d is the original
\* domain when that is gmail.com, yahoo.com or outlook.com or has no dot,
\* and for every other domain d is "company", the first 6 hex digits of the
\* hash of the domain, a dot and the original TLD, which differs from the
\* original.
C18_DottedDomainsReplaced ==
  \A n \in AddressCalls :
    LET out == outs[n].value.txt
        d == SubSeq(out, Len(UserPart(n)) + 1, Len(out))
        dotted == \E i \in DOMAIN DomainOf(n) : DomainOf(n)[i] = "."
    IN /\ outs[n].raised = ""
       /\ outs[n].value.kind = "str"
       /\ SubSeq(out, 1, Len(UserPart(n))) = UserPart(n)
       /\ IF DomainOf(n) \in CommonDomains \/ ~dotted THEN d = DomainOf(n)
          ELSE /\ d = <<"c", "o", "m", "p", "a", "n", "y">>
                        \o HashHead(n, DomainOf(n), 6) \o <<".">> \o TldOf(DomainOf(n))
               /\ d # DomainOf(n)

\* C18 witness: the address bob@m.x.org came back with a domain of 17
\* characters ending in .org
C18_Witness ==
  \E n \in AddressCalls :
    /\ calls[n].value.txt = <<"b", "o", "b", "@", "m", ".", "x", ".", "o", "r", "g">>
    /\ Len(outs[n].value.txt) = 30
    /\ EndsWith(outs[n].value.txt, <<".", "o", "r", "g">>)
    /\ ~EndsWith(outs[n].value.txt, <<"@", "m", ".", "x", ".", "o", "r", "g">>)

\* the methods C19 is about
Deterministic ==
  {"hash", "pseudonymize", "anonymize_email", "anonymize_phone", "anonymize_ssn"}

\* two calls have been made
TwoCallsDone == Len(calls) = 2 /\ Len(outs) = 2

SameValueHashed ==
  /\ TwoCallsDone
  /\ calls[1].fn = "hash" /\ calls[2].fn = "hash"
  /\ calls[1].value = calls[2].value
  /\ calls[1].arg = calls[2].arg
  /\ calls[1].arg.algorithm \in {"sha256", "sha512", "md5"}

\* the digest of str(value) alone, without a salt
Unsalted(c) == DigestCell(c.arg.algorithm, Str(c.value))

\* C20 as claimed: two engines built with different salt arguments, the
\* empty string and no salt among them, give different hashes of the same
\* value, and each hash differs from the unsalted digest of the value.
C20_DifferentSaltArguments ==
  SameValueHashed =>
    /\ calls[1].saltArg # calls[2].saltArg => outs[1].value # outs[2].value
    /\ \A n \in 1..2 : outs[n].value # Unsalted(calls[n])

\* the salt an engine built with a salt argument uses
SaltUsed(arg) == IF arg.none \/ arg.str = <<>> THEN DefaultSalt ELSE arg.str

\* C20 as amended: no salt, the empty string and "default_salt" all make the
\* engine salt with "default_salt"; two engines give different hashes of the
\* same value exactly when the salts they use differ, and each hash differs
\* from the unsalted digest of the value.
C20_DifferentSaltsUsed ==
  SameValueHashed =>
    /\ (SaltUsed(calls[1].saltArg) # SaltUsed(calls[2].saltArg))
         <=> (outs[1].value # outs[2].value)
    /\ \A n \in 1..2 :
         /\ outs[n].raised = ""
         /\ outs[n].value =
              DigestCell(calls[n].arg.algorithm,
                         Str(calls[n].value) \o SaltUsed(calls[n].saltArg))
         /\ outs[n].value # Unsalted(calls[n])

\* C20 witness: an engine built without a salt and one built with the empty
\* string gave the same hash of a value
C20_Witness ==
  /\ SameValueHashed
  /\ calls[1].saltArg = NoSalt
  /\ calls[2].saltArg = SaltArg(<<>>)
  /\ outs[1].value = outs[2].value
  /\ outs[1].value.kind = "digest"

\* the calls of perturb_value on an int or a float with the given type and,
\* for uniform, a range that is given and not negative; non_negative is
\* not set
PerturbedCalls(type) ==
  {n \in DOMAIN outs :
     /\ calls[n].fn = "perturb"
     /\ calls[n].value.kind \in {"int", "float"}
     /\ "type" \in DOMAIN calls[n].arg /\ calls[n].arg.type = type
     /\ "non_negative" \notin DOMAIN calls[n].arg
     /\ type = "uniform" =>
          "range" \in DOMAIN calls[n].arg /\ calls[n].arg.range >= 0}

\* |a|
Abs(a) == IF a < 0 THEN 0 - a ELSE a

\* C21 as claimed: with type uniform and a range r >= 0, whole or
\* fractional, the result lies in [v - r, v + r]; with type percentage p it
\* lies within p percent of |v| from v; an int gives an int and a float a
\* float.
C21_PerturbWithinRange ==
  /\ \A n \in PerturbedCalls("uniform") :
       /\ Abs(Quarters(outs[n].value) - Quarters(calls[n].value))
            <= calls[n].arg.range
       /\ outs[n].value.kind = calls[n].value.kind
  /\ \A n \in PerturbedCalls("percentage") :
       /\ 100 * Abs(Quarters(outs[n].value) - Quarters(calls[n].value))
            <= Get(calls[n].arg, "percentage", 10) * Abs(Quarters(calls[n].value))
       /\ outs[n].value.kind = calls[n].value.kind

\* the result r of perturbing v by the noise drawn: the sum itself for a
\* float, the sum cut off toward zero for an int
CutSum(v, drawn, r) ==
  LET x == Quarters(v) + drawn
  IN /\ r.kind = v.kind
     /\ v.kind = "float" => r.num = x
     /\ v.kind = "int" =>
          IF x >= 0 THEN 4 * r.num <= x /\ x < 4 * r.num + 4
          ELSE 4 * r.num - 4 < x /\ x <= 4 * r.num

\* C21 as amended: the noise drawn lies in [-r, r] (uniform) or within p
\* percent of |v| (percentage); a float gives the float v + noise, which
\* lies in the claimed interval; an int gives the int int(v + noise), the
\* sum cut off toward zero, which lies in [v - r, v + r] when r is whole and
\* less than one outside it otherwise.
C21_PerturbCutsToInt ==
  /\ \A n \in PerturbedCalls("uniform") :
       LET v == calls[n].value
           d == Abs(Quarters(outs[n].value) - Quarters(v))
       IN /\ Abs(outs[n].drawn) <= calls[n].arg.range
          /\ CutSum(v, outs[n].drawn, outs[n].value)
          /\ (v.kind = "float" \/ calls[n].arg.range % 4 = 0) =>
               d <= calls[n].arg.range
          /\ d < calls[n].arg.range + 4
  /\ \A n \in PerturbedCalls("percentage") :
       LET v == calls[n].value
           p == Get(calls[n].arg, "percentage", 10)
           d == Abs(Quarters(outs[n].value) - Quarters(v))
       IN /\ 100 * Abs(outs[n].drawn) <= p * Abs(Quarters(v))
          /\ CutSum(v, outs[n].drawn, outs[n].value)
          /\ v.kind = "float" => 100 * d <= p * Abs(Quarters(v))
          /\ 100 * d < p * Abs(Quarters(v)) + 400

\* C21 witness: the int 5 with a uniform range of 0.5 and a noise of -0.5
\* came back as 4
C21_Witness ==
  \E n \in PerturbedCalls("uniform") :
    /\ calls[n].value = IntCell(5)
    /\ calls[n].arg.range = 2
    /\ outs[n].drawn = 0 - 2
    /\ outs[n].value = IntCell(4)

\* the calls made so far of substitute_value
SubstitutedCalls == {n \in DOMAIN outs : calls[n].fn = "substitute"}

\* the built-in categories and the members of a list
Categories == {"names", "companies", "cities", "domains", "countries"}
Members(l) == {l[i] : i \in DOMAIN l}

\* what C22 promises of a call whose options have no list
WithoutList(n) ==
  IF "type" \in DOMAIN calls[n].arg /\ calls[n].arg.type \in Categories
  THEN /\ outs[n].value.kind = "str"
       /\ outs[n].value.txt \in Members(substitution_lists[calls[n].arg.type])
  ELSE outs[n].value = StrCell(REDACTED)

\* C22 as claimed: whatever the value, when options.list is given the
\* result is a member of that list; otherwise when options.type is a
\* built-in category the result is a member of that category's list;
\* otherwise the result is "[REDACTED]".
C22_SubstituteFromGivenList ==
  \A n \in SubstitutedCalls :
    /\ outs[n].raised = ""
    /\ IF "list" \in DOMAIN calls[n].arg
       THEN outs[n].value \in Members(calls[n].arg.list)
       ELSE WithoutList(n)

\* C22 as amended: whatever the value, when options.list is given and not
\* empty the result is a member of that list; otherwise (no list, or an
\* empty one) when options.type is a built-in category the result is a
\* member of that category's list; otherwise the result is "[REDACTED]".
C22_SubstituteFromNonEmptyList ==
  \A n \in SubstitutedCalls :
    /\ outs[n].raised = ""
    /\ IF "list" \in DOMAIN calls[n].arg /\ calls[n].arg.list # <<>>
       THEN outs[n].value \in Members(calls[n].arg.list)
       ELSE WithoutList(n)

\* C22 witness: with an empty list and the type names the value 7 was
\* replaced by "Anna Taylor"
C22_Witness ==
  \E n \in SubstitutedCalls :
    /\ calls[n].value = IntCell(7)
    /\ calls[n].arg = [list |-> <<>>, type |-> "names"]
    /\ outs[n].value =
         StrCell(<<"A", "n", "n", "a", " ", "T", "a", "y", "l", "o", "r">>)

\* the calls made so far of mask_value
MaskedCalls == {n \in DOMAIN outs : calls[n].fn = "mask"}

\* C23: for every value and every one-character mask_char, mask_value
\* returns a string as long as str(value); with preserve_length every
\* character is mask_char; without it and with more than two characters the
\* first and the last character are the original ones and every other is
\* mask_char; without it and with at most two characters every character
\* is mask_char.
C23_MaskShape ==
  \A n \in MaskedCalls :
    LET s == Str(calls[n].value)
        c == calls[n].arg.mask_char
        r == outs[n].value
    IN /\ outs[n].raised = ""
       /\ r.kind = "str"
       /\ Len(r.txt) = Len(s)
       /\ IF ~calls[n].arg.preserve_length /\ Len(s) > 2
          THEN /\ r.txt[1] = s[1]
               /\ r.txt[Len(s)] = s[Len(s)]
               /\ \A i \in 2..(Len(s) - 1) : r.txt[i] = c
          ELSE \A i \in 1..Len(s) : r.txt[i] = c

\* C23 witness: -12 masked with "#" and without preserve_length came back
\* as "-#2"
C23_Witness ==
  \E n \in MaskedCalls :
    /\ calls[n].value = IntCell(0 - 12)
    /\ calls[n].arg = [mask_char |-> "#", preserve_length |-> FALSE]
    /\ outs[n].value = StrCell(<<"-", "#", "2">>)

\* every call on the shared engine has returned
AllReturned ==
  plan # <<>> /\ \A w \in DOMAIN plan : runs[w].state = "returned"

\* the second configuration is the first with every bare method name m
\* written as the object {method: m, options: {}}
SameButForm(c1, c2) ==
  /\ Len(c1) = Len(c2)
  /\ \A n \in DOMAIN c1 :
       /\ c1[n].form = "str"
       /\ c2[n].form = "obj"
       /\ c2[n].optsOk /\ c2[n].options = NoOptions
       /\ c2[n].col = c1[n].col /\ c2[n].method = c1[n].method
       /\ c1[n].method \notin
            {"shuffle", "substitute", "perturb", "differential_privacy"}

\* C24: a column configured with the bare string m gets the same method and
\* the same default options as one configured with {method: m, options: {}}:
\* for every deterministic method the two configurations make the same
\* table of the same table (and print the same failures).
C24_BareEqualsObject ==
  \A v, w \in DOMAIN plan :
    /\ runs[v].state = "returned" /\ runs[w].state = "returned"
    /\ plan[v].df = plan[w].df
    /\ SameButForm(plan[v].config, plan[w].config)
    => runs[v].df = runs[w].df /\ runs[v].log = runs[w].log

\* C24 witness: the column 25 was masked to "**" under the bare string mask
\* and under the object
C24_Witness ==
  /\ AllReturned
  /\ Len(plan) = 2
  /\ plan[1].config = <<Bare("a", "mask")>>
  /\ plan[2].config = <<Obj("a", "mask", NoOptions)>>
  /\ plan[1].df.data["a"] = <<IntCell(25)>>
  /\ runs[1].df.data["a"] = <<StrCell(<<"*", "*">>)>>
  /\ runs[2].df.data["a"] = <<StrCell(<<"*", "*">>)>>

\* the identity permutation: none of the per-cell methods draws one
NoPerm(n) == [i \in 1..n |-> i]

\* what a per-cell method makes of one cell on its own
CellAlone(e, cell) ==
  IF MethodRaises(e.method, e, <<cell>>) THEN cell
  ELSE MethodResult(e.method, e, <<cell>>, engine, NoPerm(1))[1]

\* the entries of a configuration that name a per-cell method
PerCellEntries(config) ==
  {n \in DOMAIN config :
     config[n].form # "bad" /\ config[n].method \in PerCellMethods}

\* the table of the rows of t followed by the rows of u
Concat(t, u) ==
  [rows |-> t.rows + u.rows,
   cols |-> t.cols,
   data |-> [c \in DOMAIN t.data |-> t.data[c] \o u.data[c]]]

\* C25 as claimed: under the deterministic per-cell methods an output cell
\* depends on its input cell, the options and the salt alone, however the
\* calls on the shared engine interleave: each cell of a returned table is
\* what the method makes of that cell on its own; a table anonymized in two
\* chunks of rows and concatenated equals the table anonymized in one pass;
\* and a configuration gives the same table in either order of its columns.
C25_CellsIndependent ==
  /\ \A w \in DOMAIN plan :
       runs[w].state = "returned" =>
         \A n \in PerCellEntries(plan[w].config) :
           LET e == plan[w].config[n] IN
           HasColumn(plan[w].df, e.col) =>
             \A r \in 1..plan[w].df.rows :
               runs[w].df.data[e.col][r] = CellAlone(e, plan[w].df.data[e.col][r])
  /\ AllReturned /\ plan \in ChunkPlans =>
       Concat(runs[2].df, runs[3].df) = runs[1].df
  /\ AllReturned /\ plan \in OrderPlans => runs[1].df = runs[2].df

\* the calls made so far of sanitize_filename
SanitizedCalls == {n \in DOMAIN outs : calls[n].fn = "sanitize_filename"}

\* C30 as claimed: for every input string sanitize_filename returns a string
\* with none of the characters < > : " / \ | ? *, without two dots in a
\* row, and of at most 100 characters, however long the name and its
\* extension are.
C30_SanitizedIsSafe ==
  \A n \in SanitizedCalls :
    LET r == outs[n].value.txt
    IN /\ outs[n].raised = ""
       /\ \A i \in DOMAIN r : r[i] \notin Forbidden
       /\ \A i \in 1..(Len(r) - 1) : ~(r[i] = "." /\ r[i + 1] = ".")
       /\ Len(r) <= 100

\* a step of the service that answers a request of the route, and the answer
Answered(route) ==
  /\ Len(responses') = Len(responses) + 1
  /\ responses'[Len(responses')].route = route
Last == responses'[Len(responses')]

\* a method string or a {method, options} object naming a valid method
ValidMethodValue(v) ==
  \/ v.kind = "str" /\ v.s \in valid_methods
  \/ /\ v.kind = "obj"
     /\ \E i \in DOMAIN v.items :
          /\ v.items[i][1] = "method"
          /\ v.items[i][2].kind = "str"
          /\ v.items[i][2].s \in valid_methods

\* a configuration of the documented nested form: an object of sheets, each
\* an object of columns, each a valid method string or object
IsNested(config) ==
  /\ config.form = "map"
  /\ config.items # <<>>
  /\ \A i \in DOMAIN config.items :
       LET sheet == config.items[i][2]
       IN /\ sheet.kind = "obj"
          /\ \A j \in DOMAIN sheet.items : ValidMethodValue(sheet.items[j][2])

\* the file a request names is in uploads or samples
FileExists(filename) ==
  OnDisk(disk, "uploads", filename) \/ OnDisk(disk, "samples", filename)

\* C26 as claimed: POST /anonymize with a masking_config of the documented
\* nested form (sheet -> column -> method string or {method, options}
\* object, valid method names only) for a file that exists in uploads or
\* samples is answered 200 with status "processing" and a result_file, and
\* run_anonymization_job is scheduled.
C26_NestedConfigAccepted ==
  [][Answered("anonymize")
     /\ IsNested(Last.request.masking_config)
     /\ FileExists(Last.request.filename)
     => /\ Last.status = 200
        /\ Last.body.status = "processing"
        /\ Last.body.result_file # <<>>
        /\ Len(tasks') = Len(tasks) + 1]_vars

\* C27 as claimed: POST /anonymize with the empty configuration "{}" for an
\* existing uploaded file is answered 400, no job is scheduled and no output
\* file is registered.
C27_EmptyConfigRejected ==
  [][Answered("anonymize")
     /\ Last.request.masking_config = [form |-> "map", items |-> <<>>]
     /\ OnDisk(disk, "uploads", Last.request.filename)
     => /\ Last.status = 400
        /\ tasks' = tasks
        /\ temp_files' = temp_files]_vars

\* the path is registered in the registry
Registered(registry, path) == \E i \in DOMAIN registry : registry[i].path = path

\* C28 as claimed: whatever the registry holds, cleanup_temp_files returns
\* normally; every registered file older than max_age_hours that was on
\* disk is then deleted, unregistered and listed in the returned value, and
\* every younger file is on disk and registered as before.
C28_CleanupRemovesOld ==
  [][Answered("cleanup")
     => /\ Last.status = 200
        /\ \A i \in DOMAIN temp_files :
             LET e == temp_files[i]
                 old == now - e.created > Last.request.max_age_hours
             IN /\ old /\ OnDisk(disk, "uploads", e.path) =>
                     /\ ~OnDisk(disk', "uploads", e.path)
                     /\ ~Registered(temp_files', e.path)
                     /\ \E k \in DOMAIN Last.body.cleaned_files :
                          Last.body.cleaned_files[k] = e.path
                /\ ~old =>
                     /\ Registered(temp_files', e.path)
                     /\ OnDisk(disk', "uploads", e.path)
                          <=> OnDisk(disk, "uploads", e.path)]_vars

\* C29 as claimed: when the uploaded file fails validate_file_security (an
\* extension that is not allowed, or a size over the limit), POST /upload
\* is answered 400, the temporary copy is deleted, and nothing is moved
\* into uploads or registered for cleanup.
C29_InvalidUploadRejected ==
  [][Answered("upload")
     /\ \/ Last.request.size_mb > MAX_FILE_SIZE
        \/ Suffix(Last.request.filename) \notin AllowedExtensions
     => /\ Last.status = 400
        /\ ~OnDisk(disk', "temp", Last.request.filename)
        /\ disk' = disk
        /\ temp_files' = temp_files]_vars

====
